---- MODULE Spec2Model ----
(***************************************************************************)
(* State-machine model of swc_common::source_map::SourceMap                *)
(* (crates/swc_common/src/source_map.rs).                                  *)
(*                                                                         *)
(* A source text is a sequence of UTF-8 bytes (0..255), always a valid     *)
(* UTF-8 string as BytesStr guarantees.  A BytePos is a natural number;    *)
(* BytePos(0) is the dummy position.  A registered file is identified by   *)
(* its index in the files vector (the Lrc<SourceFile> handle).             *)
(*                                                                         *)
(* The specifications share the variables:                                 *)
(*   Spec       threads run new_source_file_impl step by step, taking the  *)
(*              files lock, bumping the counter, pushing the file;         *)
(*   SpecQ      registrations and the lookup / snippet queries, each a     *)
(*              whole call (every query holds the files lock for its       *)
(*              lookup, so it only observes states between registrations); *)
(*   SpecCursor calc_utf16_offset with a reused ByteToCharPosState and     *)
(*              bytepos_to_file_charpos_with on texts with 2-, 3- and      *)
(*              4-byte characters;                                         *)
(*   SpecSpan   the span operations (merge_spans, is_multiline, the        *)
(*              span_extend / span_until family);                          *)
(*   SpecEmit   build_source_map, one mapping per step;                    *)
(*   SpecCompose build_source_map with and without an upstream map;        *)
(*   SpecNames  SourceMap::new with a path mapping, the remapping of file  *)
(*              names and the stable-id index;                             *)
(*   SpecConc   the threads of Spec, load_file, and a caller whose lookup  *)
(*              waits for the files lock.                                  *)
(***************************************************************************)
EXTENDS Integers, Sequences, FiniteSets, TLC

VARIABLES files, stable_id_to_source_file, start_pos, path_mapping, lock, pc, local,
          res, cur, em

vars == <<files, stable_id_to_source_file, start_pos, path_mapping, lock, pc, local,
          res, cur, em>>

(***************************************************************************)
(* Bounds                                                                  *)
(***************************************************************************)
MaxFiles == 3

MaxCursorFiles == 2

Threads == {1, 2}

(***************************************************************************)
(* Texts.  The characters used: 'a', '\n', U+00A2 (2 bytes), U+20AC        *)
(* (3 bytes), U+1F4A9 (4 bytes) and the byte order mark U+FEFF.            *)
(***************************************************************************)
ChA == <<97>>

ChNL == <<10>>

ChCent == <<194, 162>>

ChEuro == <<226, 130, 172>>

ChPoo == <<240, 159, 146, 169>>

ChBOM == <<239, 187, 191>>

\* The sources handed to new_source_file in Spec and SpecQ: an empty
\* source, "a\na" behind a BOM, a 3-byte character followed by a newline,
\* a 2-byte followed by a 4-byte character.
Sources ==
  { <<>>,
    ChBOM \o ChA \o ChNL \o ChA,
    ChEuro \o ChNL,
    ChCent \o ChPoo }

\* The sources of SpecCursor: the text of tests::test_calc_utf16_offset
\* without its last letter, a text of multibyte characters only, a text on
\* two lines behind a BOM.
CursorSources ==
  { ChA \o ChCent \o ChA \o ChEuro \o ChA \o ChPoo,
    ChPoo \o ChEuro \o ChCent,
    ChBOM \o ChPoo \o ChNL \o ChCent }

(***************************************************************************)
(* UTF-8 text primitives (str methods the code calls)                      *)
(***************************************************************************)
\* A continuation byte 10xxxxxx.
IsCont(b) == b >= 128 /\ b <= 191

\* Width in bytes of the character that starts with the lead byte b.
len_utf8(b) == IF b < 128 THEN 1 ELSE IF b < 224 THEN 2 ELSE IF b < 240 THEN 3 ELSE 4

\* Number of UTF-16 code units of the character that starts with b.
len_utf16(b) == IF b >= 240 THEN 2 ELSE 1

\* str::is_char_boundary(idx), idx a 0-based byte index.
is_char_boundary(s, idx) ==
  \/ idx = 0
  \/ idx = Len(s)
  \/ idx > 0 /\ idx < Len(s) /\ ~IsCont(s[idx + 1])

\* str::starts_with('\u{feff}').
starts_with_bom(s) == Len(s) >= 3 /\ SubSeq(s, 1, 3) = ChBOM

\* &src[a..b] for 0-based byte indexes a <= b <= len: the bytes, or a panic
\* when an index is not a character boundary.
str_slice(s, a, b) ==
  IF a <= b /\ b <= Len(s) /\ is_char_boundary(s, a) /\ is_char_boundary(s, b)
  THEN [tag |-> "Ok", text |-> SubSeq(s, a + 1, b)]
  ELSE [tag |-> "panic", text |-> <<>>]

(***************************************************************************)
(* Registration: SourceMap::new_source_file_impl                           *)
(***************************************************************************)
\* BytePos::is_dummy.
is_dummy(pos) == pos = 0

remove_bom_keep(src) == src

\* remove_bom: drop a leading UTF-8 BOM.
remove_bom(src) == IF starts_with_bom(src) THEN SubSeq(src, 4, Len(src)) ELSE src

next_start_pos_nogap(len) == start_pos + len

\* next_start_pos: the value of the counter after fetch_add(len + 1); the
\* call returns the value before, start_pos.
next_start_pos(len) == start_pos + len + 1

\* FileName::Real(path), FileName::Anon and FileName::Custom(s); a path is
\* the sequence of its components, each a one-letter name given by its
\* byte, the root directory by 47 ('/'); the string of a Custom name is kept
\* the same way.
FileName_Real(path) == [kind |-> "Real", path |-> path]

FileName_Anon == [kind |-> "Anon", path |-> <<>>]

FileName_Custom(s) == [kind |-> "Custom", path |-> s]

\* Path::is_absolute.
is_absolute(path) == Len(path) > 0 /\ path[1] = 47

\* Path::strip_prefix(from): Ok(rest) when the components of from lead the
\* components of path.
strip_prefix(path, from) ==
  IF Len(from) <= Len(path) /\ SubSeq(path, 1, Len(from)) = from
  THEN [ok |-> TRUE, rest |-> SubSeq(path, Len(from) + 1, Len(path))]
  ELSE [ok |-> FALSE, rest |-> <<>>]

\* PathBuf::join: an absolute rest replaces the path joined to.
join(to, rest) == IF is_absolute(rest) THEN rest ELSE to \o rest

RECURSIVE map_prefix_from(_, _, _)
\* The loop of map_prefix over self.mapping.iter().rev(), at rule k.
map_prefix_from(mapping, path, k) ==
  IF k = 0 THEN [path |-> path, remapped |-> FALSE]
  ELSE IF strip_prefix(path, mapping[k].from).ok
       THEN [path |-> join(mapping[k].to, strip_prefix(path, mapping[k].from).rest),
             remapped |-> TRUE]
       ELSE map_prefix_from(mapping, path, k - 1)

map_prefix_first_wins(mapping, path) ==
  map_prefix_from([k \in 1..Len(mapping) |-> mapping[Len(mapping) + 1 - k]],
                  path, Len(mapping))

\* FilePathMapping::map_prefix(path).
map_prefix(mapping, path) == map_prefix_from(mapping, path, Len(mapping))

\* The match of new_source_file_impl on the file name: a Real name goes
\* through path_mapping.map_prefix, any other name is kept.
remap_filename(mapping, filename) ==
  IF filename.kind = "Real"
  THEN [name |-> FileName_Real(map_prefix(mapping, filename.path).path),
        was_remapped |-> map_prefix(mapping, filename.path).remapped]
  ELSE [name |-> filename, was_remapped |-> FALSE]

\* SourceFile::new: end_pos = start_pos + src.len().
SourceFile_new(name, name_was_remapped, unmapped_path, src, sp) ==
  [name |-> name, name_was_remapped |-> name_was_remapped,
   unmapped_path |-> unmapped_path,
   src |-> src, start_pos |-> sp, end_pos |-> sp + Len(src)]

RECURSIVE hash_bytes(_, _)
\* Hasher::write of the values vs into a hasher in state h; the 128 bits of
\* the StableHasher are scaled down to 4.
hash_bytes(vs, h) ==
  IF vs = <<>> THEN h ELSE hash_bytes(Tail(vs), (h * 31 + Head(vs)) % 16)

\* FileName::hash: the discriminant, then the contents.
hash_name(filename, h) ==
  hash_bytes(<<(IF filename.kind = "Real" THEN 0 ELSE IF filename.kind = "Anon" THEN 1 ELSE 2),
               Len(filename.path)>> \o filename.path, h)

\* StableSourceFileId::new(source_file): name, name_was_remapped and
\* unmapped_path are hashed in this order.
StableSourceFileId_new(source_file) ==
  hash_name(source_file.unmapped_path,
            hash_bytes(<<IF source_file.name_was_remapped THEN 1 ELSE 0>>,
                       hash_name(source_file.name, 0)))

insert_keep(m, k, v) == m @@ (k :> v)

\* HashMap::insert(k, v) on the map m.
insert(m, k, v) == (k :> v) @@ m

\* ByteToCharPosState::default().
default_state == [pos |-> 0, total_extra_bytes |-> 0, mbc_index |-> 0]

\* No ByteToCharPosState is in use.
NoCur == [file |-> 0, state |-> default_state]

NoLocal ==
  [raw |-> <<>>, src |-> <<>>, start_pos |-> 0,
   filename |-> FileName_Anon, was_remapped |-> FALSE, unmapped_path |-> FileName_Anon]

NoRes == [op |-> "none", lo |-> 0, hi |-> 0, debug |-> FALSE, out |-> [tag |-> "none"]]

\* u32::MAX, scaled to the largest integer of the checker: the code only
\* compares positions and lines with it.
U32_MAX == 2147483647

\* A token of the SourceMapBuilder: add_raw(dst_line, dst_col, src_line,
\* src_col, Some(src_id), name, false).
RawToken(dst_line, dst_col, src_line, src_col, src_id, name) ==
  [dst_line |-> dst_line, dst_col |-> dst_col, src_line |-> src_line,
   src_col |-> src_col, src_id |-> src_id, name |-> name]

\* The name argument None of add_raw; Some(name_idx) is the index itself.
NoName == -1

LineCol(line, col) == [line |-> line, col |-> col]

\* What the loop of build_source_map did with one mapping: kind is "drop"
\* (continue without a token), "skip" (the continue behind config.skip),
\* "token" (the add_raw of a located mapping), "marker" (the add_raw of a
\* u32::MAX mapping) or "panic".
Step(kind, pos, lc, token) == [kind |-> kind, pos |-> pos, lc |-> lc, token |-> token]

NoStep == Step("none", 0, LineCol(0, 0), RawToken(0, 0, 0, 0, 0, NoName))

\* The generated lines of the mappings handed to build_source_map.
GenLines == {0, 1}

\* The generated columns of the mappings.
GenCols == {0, 1, 2}

\* No call of build_source_map is in progress.  Of a call in progress em
\* holds the config (the files config.skip answers true for, the answer of
\* config.emit_columns), the locals of the loop, the sources of the builder,
\* and of the builder's tokens the number per generated line (all tokens,
\* and the u32::MAX markers among them) and the last step; after_skip says
\* that the step before the last one was a "skip".  orig says that an
\* upstream map was passed; inline and ignore are the files
\* config.inline_sources_content and config.ignore_list answer true for,
\* named says that config.name_for_bytepos knows an identifier at the first
\* position of every file; sources_content, ignore_list and names are
\* those of the builder, name_queries counts the calls of name_for_bytepos.
NoEmit ==
  [status |-> "idle", skip |-> {}, emit_columns |-> TRUE,
   orig |-> FALSE, inline |-> {}, ignore |-> {}, named |-> FALSE,
   sources_content |-> <<>>, ignore_list |-> {}, names |-> <<>>,
   name_queries |-> FALSE,
   src_id |-> 0, cur_file |-> 0, prev_dst_line |-> U32_MAX,
   ch_state |-> default_state, line_state |-> default_state,
   sources |-> <<>>,
   tokens_on_line |-> [l \in GenLines |-> 0],
   markers_on_line |-> [l \in GenLines |-> 0],
   last |-> NoStep, after_skip |-> FALSE]

Init ==
  /\ files = <<>>
  /\ stable_id_to_source_file = <<>>
  /\ start_pos = 1
  /\ path_mapping = <<>>
  /\ lock = 0
  /\ pc = [t \in Threads |-> "idle"]
  /\ local = [t \in Threads |-> NoLocal]
  /\ res = NoRes
  /\ cur = NoCur
  /\ em = NoEmit

\* Number of registrations that have been called and have not returned.
InFlight == Cardinality({t \in Threads : pc[t] # "idle"})

\* new_source_file_impl is entered with the source raw: remove_bom, then
\* the name is remapped (no shared state is touched).
Begin(t, filename, raw) ==
  /\ pc[t] = "idle"
  /\ Len(files) + InFlight < MaxFiles
  /\ local' = [local EXCEPT ![t] =
                 [raw |-> raw, src |-> remove_bom(raw), start_pos |-> 0,
                  filename |-> remap_filename(path_mapping, filename).name,
                  was_remapped |-> remap_filename(path_mapping, filename).was_remapped,
                  unmapped_path |-> filename]]
  /\ pc' = [pc EXCEPT ![t] = "acquire"]
  /\ UNCHANGED <<path_mapping, em, files, stable_id_to_source_file, start_pos, lock, res, cur>>

AcquireNoExclusion(t) ==
  /\ pc[t] = "acquire"
  /\ lock' = t
  /\ pc' = [pc EXCEPT ![t] = "reserve"]
  /\ UNCHANGED <<path_mapping, em, files, stable_id_to_source_file, start_pos, local, res, cur>>

\* let mut files = self.files.borrow_mut(): blocks until the lock is free.
Acquire(t) ==
  /\ pc[t] = "acquire"
  /\ lock = 0
  /\ lock' = t
  /\ pc' = [pc EXCEPT ![t] = "reserve"]
  /\ UNCHANGED <<path_mapping, em, files, stable_id_to_source_file, start_pos, local, res, cur>>

\* let start_pos = self.next_start_pos(src.len()).
Reserve(t) ==
  /\ pc[t] = "reserve"
  /\ local' = [local EXCEPT ![t].start_pos = start_pos]
  /\ start_pos' = next_start_pos(Len(local[t].src))
  /\ pc' = [pc EXCEPT ![t] = "push"]
  /\ UNCHANGED <<path_mapping, em, files, stable_id_to_source_file, lock, res, cur>>

push_front(fs, source_file) == <<source_file>> \o fs

\* The files after files.source_files.push(source_file).
push(fs, source_file) == Append(fs, source_file)

\* SourceFile::new, files.source_files.push(source_file.clone()) and
\* files.stable_id_to_source_file.insert(StableSourceFileId::new(..), ..).
Push(t) ==
  /\ pc[t] = "push"
  /\ files' = push(files, SourceFile_new(local[t].filename, local[t].was_remapped,
                                         local[t].unmapped_path,
                                         local[t].src, local[t].start_pos))
  /\ stable_id_to_source_file' =
       insert(stable_id_to_source_file,
              StableSourceFileId_new(files'[Len(files')]), Len(files'))
  /\ pc' = [pc EXCEPT ![t] = "ret"]
  /\ UNCHANGED <<path_mapping, em, start_pos, lock, local, res, cur>>

\* The function returns the file and the lock guard is dropped.
Return(t) ==
  /\ pc[t] = "ret"
  /\ lock' = IF lock = t THEN 0 ELSE lock
  /\ pc' = [pc EXCEPT ![t] = "idle"]
  /\ local' = [local EXCEPT ![t] = NoLocal]
  /\ UNCHANGED <<path_mapping, em, files, stable_id_to_source_file, start_pos, res, cur>>

Next ==
  \/ \E t \in Threads : \E raw \in Sources : Begin(t, FileName_Anon, raw)
  \/ \E t \in Threads : Acquire(t)
  \/ \E t \in Threads : Reserve(t)
  \/ \E t \in Threads : Push(t)
  \/ \E t \in Threads : Return(t)

Spec == Init /\ [][Next]_vars

(***************************************************************************)
(* File analysis: SourceFile::analyze, SourceFile::lookup_line and         *)
(* MultiByteChar (syntax_pos.rs)                                           *)
(***************************************************************************)
RECURSIVE analyze_lines(_, _, _)
\* The line starts that the bytes i.. of src contribute: the position after
\* each '\n'.
analyze_lines(src, sp, i) ==
  IF i > Len(src) THEN <<>>
  ELSE IF src[i] = 10 THEN <<sp + i>> \o analyze_lines(src, sp, i + 1)
  ELSE analyze_lines(src, sp, i + 1)

\* analysis.lines: the first entry is always start_pos.
lines(f) == <<f.start_pos>> \o analyze_lines(f.src, f.start_pos, 1)

RECURSIVE analyze_mbcs(_, _, _)
\* analysis.multibyte_chars: one MultiByteChar {pos, bytes} per lead byte of
\* a 2-, 3- or 4-byte sequence, in order of pos.
analyze_mbcs(src, sp, i) ==
  IF i > Len(src) THEN <<>>
  ELSE IF src[i] >= 192
       THEN <<[pos |-> sp + i - 1, bytes |-> len_utf8(src[i])]>>
            \o analyze_mbcs(src, sp, i + len_utf8(src[i]))
       ELSE analyze_mbcs(src, sp, i + 1)

multibyte_chars(f) == analyze_mbcs(f.src, f.start_pos, 1)

\* MultiByteChar::byte_to_char_diff: bytes - UTF-16 code units.
byte_to_char_diff(mbc) == mbc.bytes - (IF mbc.bytes = 4 THEN 2 ELSE 1)

\* SourceFile::lookup_line: the 0-based index of the greatest line start
\* <= pos; -1 stands for None (an empty file has no line).
lookup_line(f, pos) ==
  IF Len(f.src) = 0 THEN -1
  ELSE LET ls == lines(f)
           S == {a \in 1..Len(ls) : ls[a] <= pos}
       IN IF S = {} THEN -1 ELSE (CHOOSE a \in S : \A b \in S : b <= a) - 1

(***************************************************************************)
(* calc_utf16_offset and the byte -> char conversion                       *)
(***************************************************************************)
RECURSIVE calc_fwd_incl(_, _, _, _, _)
calc_fwd_incl(mbcs, bpos, index, total, bad) ==
  IF index >= Len(mbcs) THEN [index |-> index, total |-> total, bad |-> bad]
  ELSE LET mbc == mbcs[index + 1]
       IN IF mbc.pos > bpos
          THEN [index |-> index, total |-> total, bad |-> bad]
          ELSE calc_fwd_incl(mbcs, bpos, index + 1, total + byte_to_char_diff(mbc),
                             bad \/ ~(bpos >= mbc.pos + mbc.bytes))

RECURSIVE calc_fwd(_, _, _, _, _)
\* The loop of the branch bpos >= state.pos: add the diff of every
\* multibyte char from index on that starts before bpos.  bad records a
\* failed debug_assert (bpos in the middle of a character).
calc_fwd(mbcs, bpos, index, total, bad) ==
  IF index >= Len(mbcs) THEN [index |-> index, total |-> total, bad |-> bad]
  ELSE LET mbc == mbcs[index + 1]
       IN IF mbc.pos >= bpos
          THEN [index |-> index, total |-> total, bad |-> bad]
          ELSE calc_fwd(mbcs, bpos, index + 1, total + byte_to_char_diff(mbc),
                        bad \/ ~(bpos >= mbc.pos + mbc.bytes))

RECURSIVE calc_bwd_excl(_, _, _, _, _)
calc_bwd_excl(mbcs, bpos, index, total, bad) ==
  IF index = 0 THEN [index |-> index, total |-> total, bad |-> bad]
  ELSE LET mbc == mbcs[index]
       IN IF mbc.pos <= bpos
          THEN [index |-> index, total |-> total, bad |-> bad]
          ELSE calc_bwd_excl(mbcs, bpos, index - 1, total - byte_to_char_diff(mbc),
                             bad \/ total < byte_to_char_diff(mbc) \/ ~(bpos <= mbc.pos))

RECURSIVE calc_bwd(_, _, _, _, _)
\* The loop of the branch bpos < state.pos: subtract the diff of every
\* multibyte char below index that starts at or after bpos.  bad records a
\* u32 underflow of the subtraction or a failed debug_assert; a negative
\* total stands for the wrapped u32 of a build without overflow checks.
calc_bwd(mbcs, bpos, index, total, bad) ==
  IF index = 0 THEN [index |-> index, total |-> total, bad |-> bad]
  ELSE LET mbc == mbcs[index]
       IN IF mbc.pos < bpos
          THEN [index |-> index, total |-> total, bad |-> bad]
          ELSE calc_bwd(mbcs, bpos, index - 1, total - byte_to_char_diff(mbc),
                        bad \/ total < byte_to_char_diff(mbc) \/ ~(bpos <= mbc.pos))

\* calc_utf16_offset(file, bpos, state): the value returned
\* (total_extra_bytes), the state it leaves, bad, and the branch taken.
calc_utf16_offset(f, bpos, state) ==
  LET r == IF bpos >= state.pos
           THEN calc_fwd(multibyte_chars(f), bpos, state.mbc_index, state.total_extra_bytes, FALSE)
           ELSE calc_bwd(multibyte_chars(f), bpos, state.mbc_index, state.total_extra_bytes, FALSE)
  IN [total_extra_bytes |-> r.total,
      state |-> [pos |-> bpos, total_extra_bytes |-> r.total, mbc_index |-> r.index],
      bad |-> r.bad,
      branch |-> IF bpos >= state.pos THEN "forward" ELSE "backward"]

bytepos_to_file_charpos_with_abs(f, bpos, debug) ==
  LET r == calc_utf16_offset(f, bpos, default_state)
  IN IF debug /\ r.bad THEN [tag |-> "panic", why |-> "debug_assert", val |-> 0]
     ELSE IF ~(f.start_pos + r.total_extra_bytes <= bpos)
          THEN [tag |-> "panic", why |-> "assert total_extra_bytes", val |-> 0]
          ELSE [tag |-> "Ok", why |-> "", val |-> bpos - r.total_extra_bytes]

\* bytepos_to_file_charpos_with(map, bpos); debug tells whether the build
\* has debug assertions.
bytepos_to_file_charpos_with(f, bpos, debug) ==
  LET r == calc_utf16_offset(f, bpos, default_state)
  IN IF debug /\ r.bad THEN [tag |-> "panic", why |-> "debug_assert", val |-> 0]
     ELSE IF ~(f.start_pos + r.total_extra_bytes <= bpos)
          THEN [tag |-> "panic", why |-> "assert total_extra_bytes", val |-> 0]
          ELSE [tag |-> "Ok", why |-> "", val |-> bpos - f.start_pos - r.total_extra_bytes]

(***************************************************************************)
(* Lookups                                                                 *)
(***************************************************************************)
RECURSIVE bsearch_ge(_, _, _, _)
bsearch_ge(fs, pos, a, b) ==
  IF b - a > 1
  THEN LET m == (a + b) \div 2
       IN IF fs[m + 1].start_pos >= pos THEN bsearch_ge(fs, pos, a, m)
          ELSE bsearch_ge(fs, pos, m, b)
  ELSE a

RECURSIVE bsearch(_, _, _, _)
\* The binary search loop of lookup_source_file_in (a, b and m are 0-based).
bsearch(fs, pos, a, b) ==
  IF b - a > 1
  THEN LET m == (a + b) \div 2
       IN IF fs[m + 1].start_pos > pos THEN bsearch(fs, pos, a, m)
          ELSE bsearch(fs, pos, m, b)
  ELSE a

lookup_source_file_in_nodummy(fs, pos) ==
  LET a == bsearch(fs, pos, 0, Len(fs))
  IN IF a >= Len(fs) THEN 0 ELSE a + 1

lookup_source_file_in_range(fs, pos) ==
  IF is_dummy(pos) THEN 0
  ELSE LET a == bsearch(fs, pos, 0, Len(fs))
       IN IF a >= Len(fs) \/ pos > fs[a + 1].end_pos THEN 0 ELSE a + 1

\* lookup_source_file_in(files, pos): the index in files (1-based) of the
\* file returned, 0 for None.
lookup_source_file_in(fs, pos) ==
  IF is_dummy(pos) THEN 0
  ELSE LET a == bsearch(fs, pos, 0, Len(fs))
       IN IF a >= Len(fs) THEN 0 ELSE a + 1

\* try_lookup_source_file(pos): Ok(Some(file)) or Err(NoFileFor(pos)).
try_lookup_source_file(pos) ==
  LET fm == lookup_source_file_in(files, pos)
  IN IF fm # 0 THEN [tag |-> "Ok", sf |-> fm, pos |-> 0]
     ELSE [tag |-> "NoFileFor", sf |-> 0, pos |-> pos]

\* try_lookup_byte_offset(bpos): Ok(SourceFileAndBytePos {sf, pos}) or the
\* lookup error.
try_lookup_byte_offset(bpos) ==
  LET r == try_lookup_source_file(bpos)
  IN IF r.tag = "Ok"
     THEN [tag |-> "Ok", sf |-> r.sf, pos |-> bpos - files[r.sf].start_pos]
     ELSE r

\* lookup_byte_offset(bpos) = try_lookup_byte_offset(bpos).unwrap().
lookup_byte_offset(bpos) ==
  LET r == try_lookup_byte_offset(bpos)
  IN IF r.tag = "Ok" THEN r ELSE [tag |-> "panic", sf |-> 0, pos |-> bpos]

\* bytepos_to_file_charpos(bpos).
bytepos_to_file_charpos(bpos, debug) ==
  LET r == try_lookup_source_file(bpos)
  IN IF r.tag = "Ok" THEN bytepos_to_file_charpos_with(files[r.sf], bpos, debug)
     ELSE [tag |-> "NoFileFor", why |-> "", val |-> bpos]

Loc(sf, line, col) == [tag |-> "Ok", why |-> "", sf |-> sf, line |-> line, col |-> col]

LocPanic(why) == [tag |-> "panic", why |-> why, sf |-> 0, line |-> 0, col |-> 0]

try_lookup_char_pos_with_line0(fm, pos, debug) ==
  LET f == files[fm]
      a == lookup_line(f, pos)
  IN IF a >= 0
     THEN LET chpos == bytepos_to_file_charpos_with(f, pos, debug)
              linebpos == lines(f)[a + 1]
              linechpos == bytepos_to_file_charpos_with(f, linebpos, debug)
          IN IF chpos.tag # "Ok" THEN LocPanic(chpos.why)
             ELSE IF ~(pos >= linebpos) THEN LocPanic("assert pos >= linebpos")
             ELSE IF linechpos.tag # "Ok" THEN LocPanic(linechpos.why)
             ELSE IF debug /\ chpos.val < linechpos.val THEN LocPanic("subtract with overflow")
             ELSE Loc(fm, a, chpos.val - linechpos.val)
     ELSE LET chpos == bytepos_to_file_charpos(pos, debug)
          IN IF chpos.tag = "Ok" THEN Loc(fm, 0, chpos.val)
             ELSE LocPanic(chpos.why)

\* try_lookup_char_pos_with(fm, pos): Loc {file, line, col} (col_display is
\* left out), or the panic of an assertion.  A negative col stands for the
\* wrapped usize of a build without overflow checks.
try_lookup_char_pos_with(fm, pos, debug) ==
  LET f == files[fm]
      a == lookup_line(f, pos)
  IN IF a >= 0
     THEN LET chpos == bytepos_to_file_charpos_with(f, pos, debug)
              linebpos == lines(f)[a + 1]
              linechpos == bytepos_to_file_charpos_with(f, linebpos, debug)
          IN IF chpos.tag # "Ok" THEN LocPanic(chpos.why)
             ELSE IF ~(pos >= linebpos) THEN LocPanic("assert pos >= linebpos")
             ELSE IF linechpos.tag # "Ok" THEN LocPanic(linechpos.why)
             ELSE IF debug /\ chpos.val < linechpos.val THEN LocPanic("subtract with overflow")
             ELSE Loc(fm, a + 1, chpos.val - linechpos.val)
     ELSE LET chpos == bytepos_to_file_charpos(pos, debug)
          IN IF chpos.tag = "Ok" THEN Loc(fm, 0, chpos.val)
             ELSE LocPanic(chpos.why)

\* lookup_char_pos(pos) = try_lookup_char_pos(pos).unwrap().
lookup_char_pos(pos, debug) ==
  LET r == try_lookup_source_file(pos)
  IN IF r.tag = "Ok" THEN try_lookup_char_pos_with(r.sf, pos, debug)
     ELSE LocPanic("unwrap NoFileFor")

Snippet(tag, text) == [tag |-> tag, text |-> text]

span_to_source_ge(lo, hi) ==
  IF lo > hi THEN Snippet("IllFormedSpan", <<>>)
  ELSE IF is_dummy(lo) \/ is_dummy(hi) THEN Snippet("DummyBytePos", <<>>)
  ELSE LET local_begin == try_lookup_byte_offset(lo)
           local_end == try_lookup_byte_offset(hi)
       IN IF local_begin.tag # "Ok" \/ local_end.tag # "Ok" THEN Snippet("NoFileFor", <<>>)
          ELSE IF files[local_begin.sf].start_pos # files[local_end.sf].start_pos
               THEN Snippet("DistinctSources", <<>>)
               ELSE LET start_index == local_begin.pos
                        end_index == local_end.pos
                        sf == files[local_begin.sf]
                        source_len == sf.end_pos - sf.start_pos
                    IN IF start_index > end_index \/ end_index >= source_len
                       THEN Snippet("MalformedForSourcemap", <<>>)
                       ELSE str_slice(sf.src, start_index, end_index)

\* span_to_source(sp, extract_source) with the extract_source of
\* span_to_snippet, |src, start_index, end_index| src[start_index..end_index].
span_to_source(lo, hi) ==
  IF lo > hi THEN Snippet("IllFormedSpan", <<>>)
  ELSE IF is_dummy(lo) \/ is_dummy(hi) THEN Snippet("DummyBytePos", <<>>)
  ELSE LET local_begin == try_lookup_byte_offset(lo)
           local_end == try_lookup_byte_offset(hi)
       IN IF local_begin.tag # "Ok" \/ local_end.tag # "Ok" THEN Snippet("NoFileFor", <<>>)
          ELSE IF files[local_begin.sf].start_pos # files[local_end.sf].start_pos
               THEN Snippet("DistinctSources", <<>>)
               ELSE LET start_index == local_begin.pos
                        end_index == local_end.pos
                        sf == files[local_begin.sf]
                        source_len == sf.end_pos - sf.start_pos
                    IN IF start_index > end_index \/ end_index > source_len
                       THEN Snippet("MalformedForSourcemap", <<>>)
                       ELSE str_slice(sf.src, start_index, end_index)

span_to_snippet_dummy_first(lo, hi) ==
  IF is_dummy(lo) \/ is_dummy(hi) THEN Snippet("DummyBytePos", <<>>)
  ELSE span_to_source(lo, hi)

\* SourceMapper::span_to_snippet(sp).
span_to_snippet(lo, hi) == span_to_source(lo, hi)

\* s.chars().count(): the number of characters of the text s.
chars_count(s) == Cardinality({k \in 1..Len(s) : ~IsCont(s[k])})

RECURSIVE get_until_newline(_, _)
\* The 0-based index of the first '\n' of src at or after begin, Len(src)
\* when there is none.
get_until_newline(src, begin) ==
  IF begin >= Len(src) THEN Len(src)
  ELSE IF src[begin + 1] = 10 THEN begin
       ELSE get_until_newline(src, begin + 1)

\* SourceFile::get_line(line_number): the text of the line without its
\* line break, or None for a line the file does not have.
get_line(f, line_number) ==
  IF line_number < 0 \/ line_number >= Len(lines(f))
  THEN [some |-> FALSE, text |-> <<>>]
  ELSE LET begin == lines(f)[line_number + 1] - f.start_pos
       IN [some |-> TRUE, text |-> SubSeq(f.src, begin + 1, get_until_newline(f.src, begin))]

LineInfo(line_index, start_col, end_col) ==
  [line_index |-> line_index, start_col |-> start_col, end_col |-> end_col]

line_infos_keep_col(f, lo, hi) ==
  [k \in 1..(hi.line - lo.line + 1) |->
     IF k <= hi.line - lo.line
     THEN LET line_index == lo.line - 1 + (k - 1)
              l == get_line(f, line_index)
              line_len == IF l.some THEN chars_count(l.text) ELSE 0
          IN LineInfo(line_index, lo.col, line_len)
     ELSE LineInfo(hi.line - 1, lo.col, hi.col)]

\* The lines vector span_to_lines fills for the Locs lo and hi of one
\* non-empty file f: the loop over lo.line - 1 .. hi.line - 1 and the push of
\* the last line.
line_infos(f, lo, hi) ==
  [k \in 1..(hi.line - lo.line + 1) |->
     IF k <= hi.line - lo.line
     THEN LET line_index == lo.line - 1 + (k - 1)
              l == get_line(f, line_index)
              line_len == IF l.some THEN chars_count(l.text) ELSE 0
          IN LineInfo(line_index, IF k = 1 THEN lo.col ELSE 0, line_len)
     ELSE LineInfo(hi.line - 1, IF k = 1 THEN lo.col ELSE 0, hi.col)]

FileLines(tag, sf, ls) == [tag |-> tag, sf |-> sf, lines |-> ls]

span_to_lines_locs_same_file(l, h) ==
  IF l.tag # "Ok" \/ h.tag # "Ok" THEN FileLines("panic", 0, <<>>)
  ELSE IF ~(h.line >= l.line) THEN FileLines("panic", 0, <<>>)
  ELSE IF files[l.sf].src = <<>> THEN FileLines("Ok", l.sf, <<>>)
  ELSE FileLines("Ok", l.sf, line_infos(files[l.sf], l, h))

\* span_to_lines behind its two calls of lookup_char_pos, whose values are l
\* and h: a panic of one of them, DistinctSources, the assertion, the empty
\* file, or the lines.
span_to_lines_locs(l, h) ==
  IF l.tag # "Ok" \/ h.tag # "Ok" THEN FileLines("panic", 0, <<>>)
  ELSE IF files[l.sf].start_pos # files[h.sf].start_pos
       THEN FileLines("DistinctSources", 0, <<>>)
  ELSE IF ~(h.line >= l.line) THEN FileLines("panic", 0, <<>>)
  ELSE IF files[l.sf].src = <<>> THEN FileLines("Ok", l.sf, <<>>)
  ELSE FileLines("Ok", l.sf, line_infos(files[l.sf], l, h))

\* span_to_lines(sp): Ok(FileLines {file, lines}), an error, or the panic of
\* an unwrap or assertion.
span_to_lines(lo, hi, debug) ==
  IF lo > hi THEN FileLines("IllFormedSpan", 0, <<>>)
  ELSE span_to_lines_locs(lookup_char_pos(lo, debug), lookup_char_pos(hi, debug))

(***************************************************************************)
(* Span operations: lookup_line, merge_spans, is_multiline, the adjusters  *)
(***************************************************************************)
Span(lo, hi) == [lo |-> lo, hi |-> hi]

Min(a, b) == IF a <= b THEN a ELSE b

Max(a, b) == IF a >= b THEN a ELSE b

\* Span::to(end): the union of the two spans.
Span_to(sp, end) == Span(Min(sp.lo, end.lo), Max(sp.hi, end.hi))

\* lookup_line_with(f, pos): Ok(SourceFileAndLine {sf, line}) or Err(f).
lookup_line_with(fm, pos) ==
  LET a == lookup_line(files[fm], pos)
  IN IF a >= 0 THEN [tag |-> "Ok", sf |-> fm, line |-> a]
     ELSE [tag |-> "Err", sf |-> fm, line |-> 0]

\* SourceMap::lookup_line(pos): try_lookup_source_file(pos).unwrap().unwrap()
\* and then lookup_line_with.
SourceMap_lookup_line(pos) ==
  LET r == try_lookup_source_file(pos)
  IN IF r.tag = "Ok" THEN lookup_line_with(r.sf, pos)
     ELSE [tag |-> "panic", sf |-> 0, line |-> 0]

OptSpan(tag, sp) == [tag |-> tag, lo |-> sp.lo, hi |-> sp.hi]

\* merge_spans behind its two calls of lookup_line, whose values are lhs_end
\* and rhs_begin.
merge_spans_lines(sp_lhs, sp_rhs, lhs_end, rhs_begin) ==
  IF lhs_end.tag = "panic" THEN OptSpan("panic", Span(0, 0))
  ELSE IF lhs_end.tag = "Err" THEN OptSpan("None", Span(0, 0))
  ELSE IF rhs_begin.tag = "panic" THEN OptSpan("panic", Span(0, 0))
  ELSE IF rhs_begin.tag = "Err" THEN OptSpan("None", Span(0, 0))
  ELSE IF lhs_end.line # rhs_begin.line THEN OptSpan("None", Span(0, 0))
  ELSE IF sp_lhs.lo <= sp_rhs.lo /\ sp_lhs.hi <= sp_rhs.lo
       THEN OptSpan("Some", Span_to(sp_lhs, sp_rhs))
       ELSE OptSpan("None", Span(0, 0))

\* merge_spans(sp_lhs, sp_rhs): Some(span), None, or the panic of the unwrap
\* in lookup_line.
merge_spans(sp_lhs, sp_rhs) ==
  merge_spans_lines(sp_lhs, sp_rhs,
                    SourceMap_lookup_line(sp_lhs.hi), SourceMap_lookup_line(sp_rhs.lo))

\* is_multiline behind its two calls of lookup_char_pos.
is_multiline_locs(l, h) ==
  IF l.tag # "Ok" \/ h.tag # "Ok" THEN [tag |-> "panic", val |-> FALSE]
  ELSE [tag |-> "Ok", val |-> l.line # h.line]

\* is_multiline(sp): the bool, or the panic of lookup_char_pos.
is_multiline(sp, debug) ==
  is_multiline_locs(lookup_char_pos(sp.lo, debug), lookup_char_pos(sp.hi, debug))

NoArgs(tag) == [tag |-> tag, sf |-> 0, start_index |-> 0, end_index |-> 0]

\* span_to_source behind its two calls of try_lookup_byte_offset: the
\* error, or the file and the two local indexes handed to extract_source.
span_to_source_offsets(local_begin, local_end) ==
  IF local_begin.tag # "Ok" \/ local_end.tag # "Ok" THEN NoArgs("NoFileFor")
  ELSE IF files[local_begin.sf].start_pos # files[local_end.sf].start_pos
       THEN NoArgs("DistinctSources")
  ELSE IF \/ local_begin.pos > local_end.pos
          \/ local_end.pos > files[local_begin.sf].end_pos - files[local_begin.sf].start_pos
       THEN NoArgs("MalformedForSourcemap")
       ELSE [tag |-> "Ok", sf |-> local_begin.sf,
             start_index |-> local_begin.pos, end_index |-> local_end.pos]

\* The checks of span_to_source(sp, extract_source) up to the call of
\* extract_source.
span_to_source_args(sp) ==
  IF sp.lo > sp.hi THEN NoArgs("IllFormedSpan")
  ELSE IF is_dummy(sp.lo) \/ is_dummy(sp.hi) THEN NoArgs("DummyBytePos")
  ELSE span_to_source_offsets(try_lookup_byte_offset(sp.lo), try_lookup_byte_offset(sp.hi))

\* The closure of with_span_to_prev_source: &src[..start_index].
prev_source_extract(a) ==
  IF a.tag # "Ok" THEN Snippet(a.tag, <<>>)
  ELSE str_slice(files[a.sf].src, 0, a.start_index)

\* span_to_prev_source(sp).
span_to_prev_source(sp) == prev_source_extract(span_to_source_args(sp))

\* The closure of with_span_to_next_source: &src[end_index..].
next_source_extract(a) ==
  IF a.tag # "Ok" THEN Snippet(a.tag, <<>>)
  ELSE str_slice(files[a.sf].src, a.end_index, Len(files[a.sf].src))

\* span_to_next_source(sp).
span_to_next_source(sp) == next_source_extract(span_to_source_args(sp))

\* char::is_whitespace for the characters of the texts used here.
is_whitespace(b) == b \in {9, 10, 11, 12, 13, 32}

RECURSIVE trim_start(_)
trim_start(s) ==
  IF s # <<>> /\ is_whitespace(s[1]) THEN trim_start(Tail(s)) ELSE s

RECURSIVE trim_end(_)
trim_end(s) ==
  IF s # <<>> /\ is_whitespace(s[Len(s)]) THEN trim_end(SubSeq(s, 1, Len(s) - 1)) ELSE s

\* str::contains(c) for a one-byte character c.
contains(s, c) == \E k \in 1..Len(s) : s[k] = c

\* str::find(c): the 0-based byte offset of the first c, -1 for None.
find(s, c) ==
  IF contains(s, c) THEN (CHOOSE k \in 1..Len(s) : s[k] = c /\ \A j \in 1..(k - 1) : s[j] # c) - 1
  ELSE -1

\* s.split(c).next().unwrap_or(""): the text before the first c, all of s
\* when c does not occur.
split_first(s, c) ==
  IF contains(s, c) THEN SubSeq(s, 1, find(s, c)) ELSE s

\* s.rsplit(c).next().unwrap_or(""): the text behind the last c, all of s
\* when c does not occur.
rsplit_first(s, c) ==
  IF contains(s, c)
  THEN SubSeq(s, (CHOOSE k \in 1..Len(s) : s[k] = c /\ \A j \in (k + 1)..Len(s) : s[j] # c) + 1,
              Len(s))
  ELSE s

AdjSpan(lo, hi) == [tag |-> "Ok", lo |-> lo, hi |-> hi]

AdjPanic == [tag |-> "panic", lo |-> 0, hi |-> 0]

\* span_extend_to_prev_char behind span_to_prev_source, whose value is r;
\* prev_source is the text the code tests and measures.
extend_to_prev_char(sp, r, prev_source) ==
  IF r.tag = "panic" THEN AdjPanic
  ELSE IF r.tag = "Ok" /\ prev_source # <<>> /\ ~contains(prev_source, 10)
       THEN AdjSpan(sp.lo - Len(prev_source), sp.hi)
       ELSE AdjSpan(sp.lo, sp.hi)

\* prev_source.rsplit(c).next().unwrap_or("").trim_start().
prev_source_of(r, c) == trim_start(rsplit_first(r.text, c))

span_extend_to_prev_char_with(sp, c, r) == extend_to_prev_char(sp, r, prev_source_of(r, c))

\* span_extend_to_prev_char(sp, c).
span_extend_to_prev_char(sp, c) == span_extend_to_prev_char_with(sp, c, span_to_prev_source(sp))

\* span_extend_to_next_char behind span_to_next_source, whose value is r;
\* next_source is the text the code tests and measures.
extend_to_next_char(sp, r, next_source) ==
  IF r.tag = "panic" THEN AdjPanic
  ELSE IF r.tag = "Ok" /\ next_source # <<>> /\ ~contains(next_source, 10)
       THEN AdjSpan(sp.lo, sp.hi + Len(next_source))
       ELSE AdjSpan(sp.lo, sp.hi)

\* next_source.split(c).next().unwrap_or("").trim_end().
next_source_of(r, c) == trim_end(split_first(r.text, c))

span_extend_to_next_char_with(sp, c, r) == extend_to_next_char(sp, r, next_source_of(r, c))

\* span_extend_to_next_char(sp, c).
span_extend_to_next_char(sp, c) == span_extend_to_next_char_with(sp, c, span_to_next_source(sp))

\* Span::is_dummy.
span_is_dummy(sp) == sp.lo = 0 /\ sp.hi = 0

\* The closure of span_until_char for the snippet r, and the match on its
\* value.
until_char(sp, r, snippet) ==
  IF r.tag = "panic" THEN AdjPanic
  ELSE IF r.tag = "Ok" /\ snippet # <<>> /\ ~contains(snippet, 10)
       THEN AdjSpan(sp.lo, sp.lo + Len(snippet))
       ELSE AdjSpan(sp.lo, sp.hi)

span_until_char_with(sp, c, r) == until_char(sp, r, next_source_of(r, c))

\* span_until_char(sp, c).
span_until_char(sp, c) ==
  IF span_is_dummy(sp) THEN AdjSpan(sp.lo, sp.hi)
  ELSE span_until_char_with(sp, c, span_to_source(sp.lo, sp.hi))

\* span_through_char behind span_to_snippet, whose value is r; offset is
\* snippet.find(c).
through_char(sp, c, r, offset) ==
  IF r.tag = "panic" THEN AdjPanic
  ELSE IF r.tag = "Ok" /\ offset >= 0
       THEN AdjSpan(sp.lo, sp.lo + offset + len_utf8(c))
       ELSE AdjSpan(sp.lo, sp.hi)

span_through_char_with(sp, c, r) == through_char(sp, c, r, find(r.text, c))

\* span_through_char(sp, c).
span_through_char(sp, c) ==
  IF span_is_dummy(sp) THEN AdjSpan(sp.lo, sp.hi)
  ELSE span_through_char_with(sp, c, span_to_snippet(sp.lo, sp.hi))

(***************************************************************************)
(* SourceMap::start_point, SourceMap::end_point and                        *)
(* SourceMap::find_width_of_character_at_span                              *)
(***************************************************************************)
\* The width found, or the panic of an unwrap or of a slice.
Width(tag, w) == [tag |-> tag, w |-> w]

RECURSIVE find_width_walk(_, _, _, _, _)
\* The while loop of find_width_of_character_at_span: target moves until
\* snippet.is_char_boundary(target - start_index) holds or target reaches
\* source_len; backwards it also stops when target cannot be decremented.
find_width_walk(snippet, start_index, target, source_len, forwards) ==
  IF ~is_char_boundary(snippet, target - start_index) /\ target < source_len
  THEN IF forwards THEN find_width_walk(snippet, start_index, target + 1, source_len, forwards)
       ELSE IF target = 0 THEN target
       ELSE find_width_walk(snippet, start_index, target - 1, source_len, forwards)
  ELSE target

\* find_width_of_character_at_span behind the two lookups: start_index and
\* end_index are the offsets of lo and hi, sf is the file of lo; snippet is
\* &src[start_index..len], which panics inside a character.
find_width_in(sf, start_index, end_index, forwards) ==
  IF start_index > end_index \/ end_index > sf.end_pos - sf.start_pos THEN Width("Ok", 1)
  ELSE IF ~is_char_boundary(sf.src, start_index) THEN Width("panic", 0)
  ELSE IF forwards
       THEN Width("Ok", find_width_walk(SubSeq(sf.src, start_index + 1, Len(sf.src)),
                                        start_index, end_index + 1,
                                        sf.end_pos - sf.start_pos, forwards) - end_index)
       ELSE Width("Ok", end_index - find_width_walk(SubSeq(sf.src, start_index + 1, Len(sf.src)),
                                                    start_index, end_index - 1,
                                                    sf.end_pos - sf.start_pos, forwards))

\* find_width_of_character_at_span with local_begin and local_end the
\* values of lookup_byte_offset(sp.lo()) and lookup_byte_offset(sp.hi()).
find_width_of(local_begin, local_end, forwards) ==
  IF local_begin.tag # "Ok" \/ local_end.tag # "Ok" THEN Width("panic", 0)
  ELSE IF ~forwards /\ local_end.pos = 0 THEN Width("Ok", 1)
  ELSE find_width_in(files[local_begin.sf], local_begin.pos, local_end.pos, forwards)

\* find_width_of_character_at_span(sp, forwards).
find_width_of_character_at_span(sp, forwards) ==
  IF sp.lo >= sp.hi THEN Width("Ok", 1)
  ELSE find_width_of(lookup_byte_offset(sp.lo), lookup_byte_offset(sp.hi), forwards)

\* start_point behind find_width_of_character_at_span: sp.with_hi(max(
\* sp.lo + width, sp.lo)).
start_point_with(sp, width) ==
  IF width.tag # "Ok" THEN AdjPanic
  ELSE AdjSpan(sp.lo, Max(sp.lo + width.w, sp.lo))

\* SourceMap::start_point(sp).
start_point(sp) == start_point_with(sp, find_width_of_character_at_span(sp, FALSE))

\* end_point behind find_width_of_character_at_span: sp.with_lo(max(
\* sp.hi - width, sp.lo)).
end_point_with(sp, width) ==
  IF width.tag # "Ok" THEN AdjPanic
  ELSE AdjSpan(Max(sp.hi - width.w, sp.lo), sp.hi)

\* SourceMap::end_point(sp).
end_point(sp) == end_point_with(sp, find_width_of_character_at_span(sp, FALSE))

(***************************************************************************)
(* build_source_map                                                        *)
(***************************************************************************)
\* The least position of the band reserved for synthetic comments.
MIN_RESERVED == U32_MAX - 65536

\* BytePos::is_reserved_for_comments: the reserved band, u32::MAX excepted.
is_reserved_for_comments(pos) == pos >= MIN_RESERVED /\ pos # U32_MAX

\* Files::is_in_file(f, raw_pos).
is_in_file(f, raw_pos) == f.start_pos <= raw_pos /\ raw_pos < f.end_pos

\* The index in sources (1-based) of the source of file fm, 0 when the
\* builder does not have it yet.  A source is named by its file.
source_index(sources, fm) ==
  IF \E k \in 1..Len(sources) : sources[k] = fm
  THEN CHOOSE k \in 1..Len(sources) : sources[k] = fm
  ELSE 0

\* The sources of the builder after SourceMapBuilder::add_source: a source
\* it has keeps its id, a new one is appended.
add_source(sources, fm) ==
  IF source_index(sources, fm) # 0 THEN sources ELSE Append(sources, fm)

\* The id SourceMapBuilder::add_source returns (ids count from 0).
add_source_id(sources, fm) ==
  IF source_index(sources, fm) # 0 THEN source_index(sources, fm) - 1 ELSE Len(sources)

\* continue: the mapping leaves no token.
Dropped(e, pos, lc) ==
  [e EXCEPT !.last = Step("drop", pos, lc, NoStep.token)]

\* continue behind config.skip(&f.name).
Skipped(e, pos, lc) ==
  [e EXCEPT !.last = Step("skip", pos, lc, NoStep.token)]

\* The unwrap of try_lookup_source_file panics.
Panicked(e, pos, lc) ==
  [e EXCEPT !.status = "panic", !.last = Step("panic", pos, lc, NoStep.token)]

\* builder.add_raw(..) of token: one more token on its generated line.
add_raw(e, kind, pos, lc, token) ==
  [e EXCEPT !.tokens_on_line[lc.line] = @ + 1,
            !.markers_on_line[lc.line] = @ + (IF kind = "marker" THEN 1 ELSE 0),
            !.last = Step(kind, pos, lc, token)]

emit_marker_as_line(e, pos, lc) ==
  [add_raw(e, "marker", pos, lc, RawToken(lc.line, lc.col, 0, 0, e.src_id, NoName))
     EXCEPT !.prev_dst_line = lc.line]

\* pos == BytePos(u32::MAX): the raw token with zero source coordinates,
\* the current src_id and no name; nothing else changes.
emit_marker(e, pos, lc) ==
  add_raw(e, "marker", pos, lc, RawToken(lc.line, lc.col, 0, 0, e.src_id, NoName))

\* config.name_for_bytepos(pos): the identifier that starts at pos, named
\* by pos itself, or 0 for None.
name_for_bytepos(e, pos) ==
  IF e.named /\ \E i \in 1..Len(files) : files[i].start_pos = pos THEN pos ELSE 0

\* The names of the builder after SourceMapBuilder::add_name(name): as
\* add_source, a name it has keeps its index.
add_name(names, name) ==
  IF \E k \in 1..Len(names) : names[k] = name THEN names ELSE Append(names, name)

\* The index SourceMapBuilder::add_name returns.
add_name_id(names, name) ==
  IF \E k \in 1..Len(names) : names[k] = name
  THEN (CHOOSE k \in 1..Len(names) : names[k] = name) - 1
  ELSE Len(names)

\* let name_idx = ..: without an upstream map name_for_bytepos is asked and
\* its name added to the builder; with one, nothing is done.
name_idx(e, pos) ==
  IF e.orig THEN e
  ELSE IF name_for_bytepos(e, pos) = 0 THEN [e EXCEPT !.name_queries = TRUE]
  ELSE [e EXCEPT !.names = add_name(e.names, name_for_bytepos(e, pos)),
                 !.name_queries = TRUE]

\* The value of name_idx handed to add_raw.
name_idx_of(e, pos) ==
  IF e.orig \/ name_for_bytepos(e, pos) = 0 THEN NoName
  ELSE add_name_id(e.names, name_for_bytepos(e, pos))

\* The end of the loop body: with lr and cr the values of the two calls of
\* calc_utf16_offset (for linebpos with line_state, for pos with ch_state),
\* the token of the located mapping, and prev_dst_line = lc.line.
emit_located(e, pos, lc, line, linebpos, lr, cr) ==
  [add_raw(name_idx(e, pos), "token", pos, lc,
           RawToken(lc.line, lc.col, line,
                    (pos - cr.total_extra_bytes) - (linebpos - lr.total_extra_bytes),
                    e.src_id, name_idx_of(e, pos)))
     EXCEPT !.line_state = lr.state, !.ch_state = cr.state, !.prev_dst_line = lc.line]

\* f.lookup_line(pos) and what follows it; line is the value of lookup_line.
emit_line(e, pos, lc, f, line) ==
  IF line < 0 THEN Dropped(e, pos, lc)
  ELSE emit_located(e, pos, lc, line, lines(f)[line + 1],
                    calc_utf16_offset(f, lines(f)[line + 1], e.line_state),
                    calc_utf16_offset(f, pos, e.ch_state))

emit_file_every_column(e, pos, lc, fm) ==
  IF fm \in e.skip THEN Skipped(e, pos, lc)
  ELSE emit_line(e, pos, lc, files[fm], lookup_line(files[fm], pos))

\* The loop body behind the match on cur_file, for the file fm it yields:
\* the second config.skip, config.emit_columns against prev_dst_line, then
\* the lookup of the line.
emit_file(e, pos, lc, fm) ==
  IF fm \in e.skip THEN Skipped(e, pos, lc)
  ELSE IF ~e.emit_columns /\ lc.line = e.prev_dst_line THEN Dropped(e, pos, lc)
  ELSE emit_line(e, pos, lc, files[fm], lookup_line(files[fm], pos))

enter_source_with_orig(e, fm) ==
  [e EXCEPT !.src_id = add_source_id(e.sources, fm),
            !.sources = add_source(e.sources, fm),
            !.ignore_list =
               IF fm \in e.ignore THEN @ \cup {add_source_id(e.sources, fm)} ELSE @,
            !.sources_content =
               IF fm \in e.inline
               THEN (add_source_id(e.sources, fm) :> files[fm].src) @@ @ ELSE @]

\* builder.add_source for the file fm, and without an upstream map
\* builder.add_to_ignore_list(src_id) when config.ignore_list holds and
\* builder.set_source_contents(src_id, Some(f.src)) when
\* config.inline_sources_content holds.
enter_source(e, fm) ==
  [e EXCEPT !.src_id = add_source_id(e.sources, fm),
            !.sources = add_source(e.sources, fm),
            !.ignore_list =
               IF ~e.orig /\ fm \in e.ignore
               THEN @ \cup {add_source_id(e.sources, fm)} ELSE @,
            !.sources_content =
               IF ~e.orig /\ fm \in e.inline
               THEN (add_source_id(e.sources, fm) :> files[fm].src) @@ @ ELSE @]

enter_file_keep_cursors(e, fm) ==
  [enter_source(e, fm) EXCEPT !.cur_file = fm]

\* The locals after a file other than cur_file was found and not skipped:
\* its source added, both cursors reset, cur_file set.
enter_file(e, fm) ==
  [enter_source(e, fm) EXCEPT !.ch_state = default_state,
                              !.line_state = default_state,
                              !.cur_file = fm]

resolve_file_enter_skipped(e, pos, lc, r) ==
  IF r.tag # "Ok" THEN Panicked(e, pos, lc)
  ELSE emit_file(enter_file(e, r.sf), pos, lc, r.sf)

\* The second arm of the match on cur_file; r is the value of
\* files.try_lookup_source_file(raw_pos), which is unwrapped.
resolve_file(e, pos, lc, r) ==
  IF r.tag # "Ok" THEN Panicked(e, pos, lc)
  ELSE IF r.sf \in e.skip THEN Skipped(e, pos, lc)
  ELSE emit_file(enter_file(e, r.sf), pos, lc, r.sf)

\* One turn of the loop of build_source_map over the mapping (pos, lc), e
\* the state before it.
build_step(e, pos, lc) ==
  IF is_reserved_for_comments(pos) THEN Dropped(e, pos, lc)
  ELSE IF lc.line = 0 /\ lc.col = 0 /\ is_dummy(pos) THEN Dropped(e, pos, lc)
  ELSE IF pos = U32_MAX THEN emit_marker(e, pos, lc)
  ELSE IF e.cur_file # 0 /\ is_in_file(files[e.cur_file], pos)
       THEN emit_file(e, pos, lc, e.cur_file)
       ELSE resolve_file(e, pos, lc, try_lookup_source_file(pos))

(***************************************************************************)
(* SpecQ: whole registrations and queries                                  *)
(***************************************************************************)
Result(op, lo, hi, debug, out) == [op |-> op, lo |-> lo, hi |-> hi, debug |-> debug, out |-> out]

\* The positions queried: the dummy, every position of every file, the gap
\* positions, and two positions beyond the last file.
QueryPos == 0..(start_pos + 1)

\* new_source_file(filename, src) as one call of a caller that makes one
\* call at a time: the steps of new_source_file_impl in order, the lock
\* taken and released.
new_source_file(filename, raw) ==
  /\ Len(files) < MaxFiles
  /\ lock = 0
  /\ \A t \in Threads : pc[t] = "idle"
  /\ res = NoRes
  /\ start_pos' = next_start_pos(Len(remove_bom(raw)))
  /\ files' = push(files, SourceFile_new(remap_filename(path_mapping, filename).name,
                                         remap_filename(path_mapping, filename).was_remapped,
                                         filename, remove_bom(raw), start_pos))
  /\ stable_id_to_source_file' =
       insert(stable_id_to_source_file,
              StableSourceFileId_new(files'[Len(files')]), Len(files'))
  /\ UNCHANGED <<path_mapping, em, lock, pc, local, res, cur>>

\* The caller drops the value the last query returned; res holds the value
\* of the one call whose result the caller still has.
DropResult ==
  /\ res # NoRes
  /\ res' = NoRes
  /\ UNCHANGED <<path_mapping, em, files, stable_id_to_source_file, start_pos, lock, pc, local, cur>>

QTryLookupSourceFile(pos) ==
  /\ lock = 0
  /\ res = NoRes
  /\ res' = Result("try_lookup_source_file", pos, pos, FALSE, try_lookup_source_file(pos))
  /\ UNCHANGED <<path_mapping, em, files, stable_id_to_source_file, start_pos, lock, pc, local, cur>>

QLookupByteOffset(pos) ==
  /\ lock = 0
  /\ res = NoRes
  /\ res' = Result("lookup_byte_offset", pos, pos, FALSE, lookup_byte_offset(pos))
  /\ UNCHANGED <<path_mapping, em, files, stable_id_to_source_file, start_pos, lock, pc, local, cur>>

QLookupCharPos(pos, debug) ==
  /\ lock = 0
  /\ res = NoRes
  /\ res' = Result("lookup_char_pos", pos, pos, debug, lookup_char_pos(pos, debug))
  /\ UNCHANGED <<path_mapping, em, files, stable_id_to_source_file, start_pos, lock, pc, local, cur>>

QSpanToSnippet(lo, hi) ==
  /\ lock = 0
  /\ res = NoRes
  /\ res' = Result("span_to_snippet", lo, hi, FALSE, span_to_snippet(lo, hi))
  /\ UNCHANGED <<path_mapping, em, files, stable_id_to_source_file, start_pos, lock, pc, local, cur>>

QSpanToLines(lo, hi, debug) ==
  /\ lock = 0
  /\ res = NoRes
  /\ res' = Result("span_to_lines", lo, hi, debug, span_to_lines(lo, hi, debug))
  /\ UNCHANGED <<path_mapping, em, files, stable_id_to_source_file, start_pos, lock, pc, local, cur>>

QStartPoint(lo, hi) ==
  /\ lock = 0
  /\ res = NoRes
  /\ res' = Result("start_point", lo, hi, FALSE, start_point(Span(lo, hi)))
  /\ UNCHANGED <<path_mapping, em, files, stable_id_to_source_file, start_pos, lock, pc, local, cur>>

QEndPoint(lo, hi) ==
  /\ lock = 0
  /\ res = NoRes
  /\ res' = Result("end_point", lo, hi, FALSE, end_point(Span(lo, hi)))
  /\ UNCHANGED <<path_mapping, em, files, stable_id_to_source_file, start_pos, lock, pc, local, cur>>

NextQ ==
  \/ \E raw \in Sources : new_source_file(FileName_Anon, raw)
  \/ res = NoRes /\ \E pos \in QueryPos : QTryLookupSourceFile(pos)
  \/ res = NoRes /\ \E pos \in QueryPos : QLookupByteOffset(pos)
  \/ res = NoRes /\ \E pos \in QueryPos : \E debug \in BOOLEAN : QLookupCharPos(pos, debug)
  \/ res = NoRes /\ \E lo \in QueryPos : \E hi \in QueryPos : QSpanToSnippet(lo, hi)
  \/ res = NoRes /\ \E lo \in QueryPos : \E hi \in QueryPos : \E debug \in BOOLEAN :
       QSpanToLines(lo, hi, debug)
  \/ res = NoRes /\ \E lo \in QueryPos : \E hi \in QueryPos : QStartPoint(lo, hi)
  \/ res = NoRes /\ \E lo \in QueryPos : \E hi \in QueryPos : QEndPoint(lo, hi)
  \/ DropResult

SpecQ == Init /\ [][NextQ]_vars

(***************************************************************************)
(* SpecCursor: calc_utf16_offset with a reused ByteToCharPosState          *)
(***************************************************************************)
\* The character boundaries of file f as absolute positions.
Boundaries(f) ==
  {b \in f.start_pos..f.end_pos : is_char_boundary(f.src, b - f.start_pos)}

\* let mut state = ByteToCharPosState::default(), to be used with file fm.
NewState(fm) ==
  /\ res = NoRes
  /\ cur' = [file |-> fm, state |-> default_state]
  /\ UNCHANGED <<path_mapping, em, files, stable_id_to_source_file, start_pos, lock, pc, local, res>>

\* calc_utf16_offset(&file, bpos, &mut state) with the state in use.
QCalcUtf16Offset(bpos) ==
  /\ res = NoRes
  /\ cur.file # 0
  /\ LET r == calc_utf16_offset(files[cur.file], bpos, cur.state)
     IN /\ res' = Result("calc_utf16_offset", bpos, bpos, FALSE,
                         [tag |-> "Ok", val |-> r.total_extra_bytes, bad |-> r.bad,
                          branch |-> r.branch])
        /\ cur' = [cur EXCEPT !.state = r.state]
  /\ UNCHANGED <<path_mapping, em, files, stable_id_to_source_file, start_pos, lock, pc, local>>

\* sm.bytepos_to_file_charpos_with(&file, bpos).
QBytePosToFileCharPosWith(fm, bpos, debug) ==
  /\ res = NoRes
  /\ res' = Result("bytepos_to_file_charpos_with", bpos, fm, debug,
                   bytepos_to_file_charpos_with(files[fm], bpos, debug))
  /\ UNCHANGED <<path_mapping, em, files, stable_id_to_source_file, start_pos, lock, pc, local, cur>>

NextCursor ==
  \/ \E raw \in CursorSources : Len(files) < MaxCursorFiles /\ new_source_file(FileName_Anon, raw)
  \/ \E fm \in 1..Len(files) : NewState(fm)
  \/ cur.file # 0 /\ \E bpos \in Boundaries(files[cur.file]) : QCalcUtf16Offset(bpos)
  \/ \E fm \in 1..Len(files) : \E bpos \in Boundaries(files[fm]) : \E debug \in BOOLEAN :
       QBytePosToFileCharPosWith(fm, bpos, debug)
  \/ DropResult

SpecCursor == Init /\ [][NextCursor]_vars

(***************************************************************************)
(* SpecSpan: merge_spans, is_multiline and the span adjusters              *)
(***************************************************************************)
MaxSpanFiles == 2

\* The sources of SpecSpan: a text on two lines, and a text with leading
\* and trailing whitespace.
SpanSources == { <<97, 10, 97>>, <<32, 97, 32>> }

\* The characters searched for: one the texts have, one they do not have.
SpanChars == {97, 120}

\* The positions of the spans queried: the dummy, every position of every
\* file, the gap positions, and one position beyond the last file.
SpanPos == 0..start_pos

Spans == {Span(lo, hi) : lo \in SpanPos, hi \in SpanPos}

\* The value a span query returned: the span asked about, the second
\* argument (a span or a character), and the outcome.
SpanResult(op, sp, arg, debug, out) ==
  [op |-> op, lo |-> sp.lo, hi |-> sp.hi, debug |-> debug, out |-> out, arg |-> arg]

QMergeSpans(sp_lhs, sp_rhs) ==
  /\ lock = 0
  /\ res = NoRes
  /\ res' = SpanResult("merge_spans", sp_lhs, sp_rhs, FALSE, merge_spans(sp_lhs, sp_rhs))
  /\ UNCHANGED <<path_mapping, em, files, stable_id_to_source_file, start_pos, lock, pc, local, cur>>

QIsMultiline(sp, debug) ==
  /\ lock = 0
  /\ res = NoRes
  /\ res' = SpanResult("is_multiline", sp, 0, debug, is_multiline(sp, debug))
  /\ UNCHANGED <<path_mapping, em, files, stable_id_to_source_file, start_pos, lock, pc, local, cur>>

QSpanExtendToPrevChar(sp, c) ==
  /\ lock = 0
  /\ res = NoRes
  /\ res' = SpanResult("span_extend_to_prev_char", sp, c, FALSE, span_extend_to_prev_char(sp, c))
  /\ UNCHANGED <<path_mapping, em, files, stable_id_to_source_file, start_pos, lock, pc, local, cur>>

QSpanExtendToNextChar(sp, c) ==
  /\ lock = 0
  /\ res = NoRes
  /\ res' = SpanResult("span_extend_to_next_char", sp, c, FALSE, span_extend_to_next_char(sp, c))
  /\ UNCHANGED <<path_mapping, em, files, stable_id_to_source_file, start_pos, lock, pc, local, cur>>

QSpanUntilChar(sp, c) ==
  /\ lock = 0
  /\ res = NoRes
  /\ res' = SpanResult("span_until_char", sp, c, FALSE, span_until_char(sp, c))
  /\ UNCHANGED <<path_mapping, em, files, stable_id_to_source_file, start_pos, lock, pc, local, cur>>

QSpanThroughChar(sp, c) ==
  /\ lock = 0
  /\ res = NoRes
  /\ res' = SpanResult("span_through_char", sp, c, FALSE, span_through_char(sp, c))
  /\ UNCHANGED <<path_mapping, em, files, stable_id_to_source_file, start_pos, lock, pc, local, cur>>

NextSpan ==
  \/ \E raw \in SpanSources : Len(files) < MaxSpanFiles /\ new_source_file(FileName_Anon, raw)
  \/ res = NoRes /\ \E sp_lhs \in Spans : \E sp_rhs \in Spans : QMergeSpans(sp_lhs, sp_rhs)
  \/ res = NoRes /\ \E sp \in Spans : \E debug \in BOOLEAN : QIsMultiline(sp, debug)
  \/ res = NoRes /\ \E sp \in Spans : \E debug \in BOOLEAN : QSpanToLines(sp.lo, sp.hi, debug)
  \/ res = NoRes /\ \E sp \in Spans : QSpanToSnippet(sp.lo, sp.hi)
  \/ res = NoRes /\ \E sp \in Spans : \E c \in SpanChars : QSpanExtendToPrevChar(sp, c)
  \/ res = NoRes /\ \E sp \in Spans : \E c \in SpanChars : QSpanExtendToNextChar(sp, c)
  \/ res = NoRes /\ \E sp \in Spans : \E c \in SpanChars : QSpanUntilChar(sp, c)
  \/ res = NoRes /\ \E sp \in Spans : \E c \in SpanChars : QSpanThroughChar(sp, c)
  \/ DropResult

SpecSpan == Init /\ [][NextSpan]_vars

(***************************************************************************)
(* SpecEmit: build_source_map over a list of mappings                      *)
(***************************************************************************)
MaxEmitFiles == 2

\* The sources of SpecEmit: the empty text, and a text on two lines that
\* starts with a 4-byte character.
EmitSources == { <<>>, ChPoo \o ChNL \o ChA }

\* The source positions of the mappings: the dummy, a position of the band
\* reserved for comments, u32::MAX, the character boundaries of every file,
\* and the position behind the last file.
EmitPos ==
  {0, U32_MAX - 1, U32_MAX, start_pos}
    \cup UNION {Boundaries(files[i]) : i \in 1..Len(files)}

\* lc lies behind the generated position of the last mapping handed over:
\* the mappings are ordered by generated position.
Follows(lc) ==
  \/ em.last.kind = "none"
  \/ lc.line > em.last.lc.line
  \/ lc.line = em.last.lc.line /\ lc.col > em.last.lc.col

\* build_source_map(files, mappings, orig, config) is called: config.skip
\* answers true for the files of skip, config.emit_columns answers
\* emit_columns for every file; compose holds orig.is_some() and the other
\* answers of config.
StartBuild(skip, emit_columns, compose) ==
  /\ em.status = "idle"
  /\ lock = 0
  /\ res = NoRes
  /\ em' = [NoEmit EXCEPT !.status = "running", !.skip = skip,
                          !.emit_columns = emit_columns,
                          !.orig = compose.orig, !.inline = compose.inline,
                          !.ignore = compose.ignore, !.named = compose.named]
  /\ UNCHANGED <<path_mapping, files, stable_id_to_source_file, start_pos, lock, pc, local, res, cur>>

\* The loop takes the next mapping (pos, lc) of the list.
EmitMapping(pos, lc) ==
  /\ em.status = "running"
  /\ Follows(lc)
  /\ em' = [build_step(em, pos, lc) EXCEPT !.after_skip = (em.last.kind = "skip")]
  /\ UNCHANGED <<path_mapping, files, stable_id_to_source_file, start_pos, lock, pc, local, res, cur>>

\* builder.into_sourcemap(): the parts of the new map the model keeps.
into_sourcemap(e) ==
  [sources |-> e.sources, sources_content |-> e.sources_content,
   ignore_list |-> e.ignore_list, names |-> e.names]

\* The value build_source_map returns: the upstream map after
\* orig.adjust_mappings(&map) when there is one, the new map otherwise.
returned_map(e) ==
  IF e.status = "panic" THEN [tag |-> "panic"]
  ELSE IF e.orig THEN [tag |-> "orig.adjust_mappings", map |-> into_sourcemap(e)]
  ELSE [tag |-> "map", map |-> into_sourcemap(e)]

\* The list is at its end and the map is returned, or the panic has
\* unwound the call.
EndBuild ==
  /\ em.status \in {"running", "panic"}
  /\ em' = NoEmit
  /\ res' = Result("build_source_map", 0, 0, em.orig, returned_map(em))
  /\ UNCHANGED <<path_mapping, files, stable_id_to_source_file, start_pos, lock, pc, local, cur>>

\* The config of SpecEmit: no upstream map, no inlined contents, no
\* ignore list, and the name_for_bytepos of the trait, which knows no name.
DefaultCompose == [orig |-> FALSE, inline |-> {}, ignore |-> {}, named |-> FALSE]

NextEmit ==
  \/ \E raw \in EmitSources :
       em.status = "idle" /\ Len(files) < MaxEmitFiles /\ new_source_file(FileName_Anon, raw)
  \/ em.status = "idle" /\ \E skip \in SUBSET (1..Len(files)) : \E emit_columns \in BOOLEAN :
       StartBuild(skip, emit_columns, DefaultCompose)
  \/ em.status = "running" /\ \E pos \in EmitPos : \E line \in GenLines : \E col \in GenCols :
       EmitMapping(pos, LineCol(line, col))
  \/ EndBuild
  \/ DropResult

SpecEmit == Init /\ [][NextEmit]_vars

(***************************************************************************)
(* SpecCompose: build_source_map with and without an upstream map, with    *)
(* the answers of inline_sources_content and ignore_list chosen per file   *)
(* and a name_for_bytepos that knows names                                 *)
(***************************************************************************)
MaxComposeFiles == 2

\* The source positions of the mappings of SpecCompose: the first and the
\* last position of every file, and the u32::MAX marker.
ComposePos ==
  {U32_MAX} \cup {files[i].start_pos : i \in 1..Len(files)}
            \cup {files[i].end_pos : i \in 1..Len(files)}

NextCompose ==
  \/ \E raw \in EmitSources :
       em.status = "idle" /\ Len(files) < MaxComposeFiles /\ new_source_file(FileName_Anon, raw)
  \/ em.status = "idle" /\ \E orig \in BOOLEAN : \E inline \in SUBSET (1..Len(files)) :
       \E ignore \in SUBSET (1..Len(files)) :
         StartBuild({}, TRUE, [orig |-> orig, inline |-> inline, ignore |-> ignore,
                               named |-> TRUE])
  \/ em.status = "running" /\ \E pos \in ComposePos : \E col \in GenCols :
       EmitMapping(pos, LineCol(0, col))
  \/ EndBuild
  \/ DropResult

SpecCompose == Init /\ [][NextCompose]_vars

(***************************************************************************)
(* SpecNames: a SourceMap with a path mapping, registrations under Real,   *)
(* Anon and Custom names, map_prefix and source_file_by_stable_id          *)
(***************************************************************************)
MaxNameFiles == 3

\* A rule (from, to) of a FilePathMapping.
Rule(from, to) == [from |-> from, to |-> to]

\* The paths "/a", "/a/b", "/a/c" and the relative path "b".
PathA == <<47, 97>>

PathAB == <<47, 97, 98>>

PathAC == <<47, 97, 99>>

PathB == <<98>>

\* The mappings a SourceMap is constructed with: the rule of "/a" before
\* the rule of "/a/b", the same rules in the other order, and a rule with
\* an empty from, which every path starts with, behind the rule of "/a/b".
PathMappings ==
  { <<Rule(PathA, <<47, 120>>), Rule(PathAB, <<121>>)>>,
    <<Rule(PathAB, <<121>>), Rule(PathA, <<47, 120>>)>>,
    <<Rule(<<>>, <<122>>), Rule(PathAB, <<121>>)>> }

Paths == {PathAB, PathAC, PathB}

\* The names files are registered under.
FileNames ==
  {FileName_Real(p) : p \in Paths} \cup {FileName_Anon, FileName_Custom(PathAB)}

\* SourceMap::new(path_mapping): the map is constructed with the mapping
\* instead of the empty one.
SourceMap_new(mapping) ==
  /\ path_mapping = <<>>
  /\ files = <<>>
  /\ start_pos = 1
  /\ res = NoRes
  /\ path_mapping' = mapping
  /\ UNCHANGED <<files, stable_id_to_source_file, start_pos, lock, pc, local, res, cur, em>>

\* SourceMap::source_file_by_stable_id(stable_id).
source_file_by_stable_id(stable_id) ==
  IF stable_id \in DOMAIN stable_id_to_source_file
  THEN [tag |-> "Some", sf |-> stable_id_to_source_file[stable_id]]
  ELSE [tag |-> "None", sf |-> 0]

\* The values a StableSourceFileId takes.
StableIds == 0..15

QSourceFileByStableId(stable_id) ==
  /\ lock = 0
  /\ res = NoRes
  /\ res' = Result("source_file_by_stable_id", stable_id, stable_id, FALSE,
                   source_file_by_stable_id(stable_id))
  /\ UNCHANGED <<path_mapping, em, files, stable_id_to_source_file, start_pos, lock, pc, local, cur>>

\* self.path_mapping().map_prefix(path); the path asked about is kept with
\* the value returned.
QMapPrefix(path) ==
  /\ lock = 0
  /\ res = NoRes
  /\ res' = Result("map_prefix", 0, 0, FALSE,
                   [tag |-> "Ok", arg |-> path, val |-> map_prefix(path_mapping, path)])
  /\ UNCHANGED <<path_mapping, em, files, stable_id_to_source_file, start_pos, lock, pc, local, cur>>

NextNames ==
  \/ \E mapping \in PathMappings : SourceMap_new(mapping)
  \/ \E filename \in FileNames :
       Len(files) < MaxNameFiles /\ new_source_file(filename, ChA)
  \/ res = NoRes /\ \E stable_id \in StableIds : QSourceFileByStableId(stable_id)
  \/ res = NoRes /\ \E path \in Paths : QMapPrefix(path)
  \/ DropResult

SpecNames == Init /\ [][NextNames]_vars

(***************************************************************************)
(* SpecConc: threads that register sources and load files while a caller   *)
(* looks positions up                                                      *)
(***************************************************************************)
MaxConcFiles == 2

\* The sources handed to new_source_file in SpecConc.
ConcSources == { <<>>, ChCent \o ChA }

\* The file system: "/a" holds a UTF-8 text behind a BOM, "/a/b" holds a
\* 3-byte character cut after its second byte, "/a/c" holds a lone
\* continuation byte behind a letter, "b" does not exist.
DiskPaths == {PathA, PathAB, PathAC, PathB}

\* fs::read(path): the bytes of the file or the I/O error.
fs_read(path) ==
  IF path = PathA THEN [tag |-> "Ok", bytes |-> ChBOM \o ChEuro]
  ELSE IF path = PathAB THEN [tag |-> "Ok", bytes |-> ChA \o <<226, 130>>]
  ELSE IF path = PathAC THEN [tag |-> "Ok", bytes |-> ChA \o <<162>>]
  ELSE [tag |-> "NotFound", bytes |-> <<>>]

\* The followers of a UTF-8 lead byte at index i of bytes are there and
\* are continuation bytes, the first of them in the range the lead allows.
continuation_ok(bytes, i, n, lo, hi) ==
  /\ i + n - 1 <= Len(bytes)
  /\ n >= 2 => bytes[i + 1] >= lo /\ bytes[i + 1] <= hi
  /\ \A k \in (i + 2)..(i + n - 1) : bytes[k] >= 128 /\ bytes[k] <= 191

\* BytesStr::from_utf8 accepts bytes from index i on.
RECURSIVE from_utf8_from(_, _)
from_utf8_from(bytes, i) ==
  IF i > Len(bytes) THEN TRUE
  ELSE IF bytes[i] < 128 THEN from_utf8_from(bytes, i + 1)
  ELSE IF bytes[i] >= 194 /\ bytes[i] <= 223
       THEN continuation_ok(bytes, i, 2, 128, 191) /\ from_utf8_from(bytes, i + 2)
  ELSE IF bytes[i] >= 224 /\ bytes[i] <= 239
       THEN /\ continuation_ok(bytes, i, 3,
                               IF bytes[i] = 224 THEN 160 ELSE 128,
                               IF bytes[i] = 237 THEN 159 ELSE 191)
            /\ from_utf8_from(bytes, i + 3)
  ELSE IF bytes[i] >= 240 /\ bytes[i] <= 244
       THEN /\ continuation_ok(bytes, i, 4,
                               IF bytes[i] = 240 THEN 144 ELSE 128,
                               IF bytes[i] = 244 THEN 143 ELSE 191)
            /\ from_utf8_from(bytes, i + 4)
  ELSE FALSE

\* BytesStr::from_utf8(bytes).is_ok().
from_utf8(bytes) == from_utf8_from(bytes, 1)

\* RealFileLoader::read_file(path): the text, the error of fs::read, or
\* InvalidData when the bytes are not UTF-8.
read_file(path) ==
  IF fs_read(path).tag # "Ok" THEN fs_read(path)
  ELSE IF from_utf8(fs_read(path).bytes) THEN fs_read(path)
  ELSE [tag |-> "InvalidData", bytes |-> <<>>]

load_file_reserve_first(t, path) ==
  /\ pc[t] = "idle"
  /\ res = NoRes
  /\ Len(files) + InFlight < MaxConcFiles
  /\ IF read_file(path).tag = "Ok"
     THEN Begin(t, FileName_Real(path), read_file(path).bytes)
     ELSE /\ res' = Result("load_file", 0, 0, FALSE, [tag |-> read_file(path).tag, path |-> path])
          /\ start_pos' = next_start_pos(Len(fs_read(path).bytes))
          /\ UNCHANGED <<path_mapping, em, files, stable_id_to_source_file, lock, pc, local, cur>>

\* load_file(path) up to the lock of new_source_file_impl: read_file, and
\* on an error the return of it; otherwise new_source_file is entered with
\* the name FileName::Real(path) and the text read.
load_file(t, path) ==
  /\ pc[t] = "idle"
  /\ res = NoRes
  /\ Len(files) + InFlight < MaxConcFiles
  /\ IF read_file(path).tag = "Ok"
     THEN Begin(t, FileName_Real(path), read_file(path).bytes)
     ELSE /\ res' = Result("load_file", 0, 0, FALSE, [tag |-> read_file(path).tag, path |-> path])
          /\ UNCHANGED <<path_mapping, em, files, stable_id_to_source_file, start_pos, lock, pc, local, cur>>

\* pos lies in a range some thread has reserved from the counter and whose
\* file is not pushed yet.
Reserved(pos) ==
  \E t \in Threads :
    /\ pc[t] = "push"
    /\ local[t].start_pos <= pos
    /\ pos <= local[t].start_pos + Len(local[t].src)

\* The positions looked up in SpecConc: every position handed out so far.
ConcPos == 1..start_pos

\* try_lookup_source_file(pos) is called and is about to borrow the files;
\* reserved records whether pos was in a reserved range with no file then.
CallLookup(pos) ==
  /\ res = NoRes
  /\ res' = Result("try_lookup_source_file", pos, pos, FALSE,
                   [tag |-> "pending", reserved |-> Reserved(pos)])
  /\ UNCHANGED <<path_mapping, em, files, stable_id_to_source_file, start_pos, lock, pc, local, cur>>

BorrowAnyway ==
  /\ res.op = "try_lookup_source_file"
  /\ res.out.tag = "pending"
  /\ res' = [res EXCEPT !.out = [tag |-> try_lookup_source_file(res.lo).tag,
                                 sf |-> try_lookup_source_file(res.lo).sf,
                                 reserved |-> res.out.reserved]]
  /\ UNCHANGED <<path_mapping, em, files, stable_id_to_source_file, start_pos, lock, pc, local, cur>>

\* let files = self.files.borrow() succeeds once no registration holds the
\* lock; the lookup runs and returns.
Borrow ==
  /\ res.op = "try_lookup_source_file"
  /\ res.out.tag = "pending"
  /\ lock = 0
  /\ res' = [res EXCEPT !.out = [tag |-> try_lookup_source_file(res.lo).tag,
                                 sf |-> try_lookup_source_file(res.lo).sf,
                                 reserved |-> res.out.reserved]]
  /\ UNCHANGED <<path_mapping, em, files, stable_id_to_source_file, start_pos, lock, pc, local, cur>>

\* The caller drops the value a lookup or a failed load_file returned.
DropReturned ==
  /\ res # NoRes
  /\ res.out.tag # "pending"
  /\ res' = NoRes
  /\ UNCHANGED <<path_mapping, em, files, stable_id_to_source_file, start_pos, lock, pc, local, cur>>

NextConc ==
  \/ \E t \in Threads : \E raw \in ConcSources :
       Len(files) + InFlight < MaxConcFiles /\ Begin(t, FileName_Anon, raw)
  \/ \E t \in Threads : \E path \in DiskPaths : load_file(t, path)
  \/ \E t \in Threads : Acquire(t)
  \/ \E t \in Threads : Reserve(t)
  \/ \E t \in Threads : Push(t)
  \/ \E t \in Threads : Return(t)
  \/ res = NoRes /\ \E pos \in ConcPos : CallLookup(pos)
  \/ Borrow
  \/ DropReturned

SpecConc == Init /\ [][NextConc]_vars

(***************************************************************************)
(* Claims on registration                                                  *)
(***************************************************************************)
\* Length of a source once a leading BOM is dropped, stated on the input.
StrippedLen(raw) ==
  IF Len(raw) >= 3 /\ raw[1] = 239 /\ raw[2] = 187 /\ raw[3] = 191
  THEN Len(raw) - 3 ELSE Len(raw)

RECURSIVE SumLenPlusOne(_)
\* Sum of (len + 1) over a sequence of files.
SumLenPlusOne(fs) ==
  IF fs = <<>> THEN 0 ELSE Len(fs[1].src) + 1 + SumLenPlusOne(Tail(fs))

\* C1: for any two distinct registered files the intervals
\* [start_pos, end_pos) are disjoint, and the later file starts at least one
\* position after the end_pos of the earlier one (files are compared by
\* start_pos, whatever their place in the vector).
C1_IntervalsDisjoint ==
  \A i, j \in 1..Len(files) :
    (i # j /\ files[i].start_pos <= files[j].start_pos) =>
      /\ files[i].start_pos <= files[i].end_pos
      /\ files[i].end_pos + 1 <= files[j].start_pos

\* An empty file (here from a BOM-only or empty source) followed by a later
\* file.
C1_Witness ==
  \E i, j \in 1..Len(files) :
    /\ i < j
    /\ files[i].start_pos = files[i].end_pos
    /\ files[j].start_pos = files[i].end_pos + 1

\* C2 (state part): every file has end_pos = start_pos + len, the first file
\* starts at 1, and when no registration is between its counter bump and its
\* push the counter is 1 + the sum of (len + 1) over the registered files.
C2_CounterState ==
  /\ \A i \in 1..Len(files) : files[i].end_pos = files[i].start_pos + Len(files[i].src)
  /\ (Len(files) > 0 => files[1].start_pos = 1)
  /\ ((\A t \in Threads : pc[t] # "push") => start_pos = 1 + SumLenPlusOne(files))

\* C2 (step part): a step that changes the counter is the bump of one
\* registration, whose source has n bytes once the BOM is dropped: the
\* counter grows by n + 1 and the registration holds the value before; a
\* step that adds a file adds one with that start_pos and end_pos =
\* start_pos + n.
C2_CounterStep ==
  /\ (start_pos' # start_pos =>
        \E t \in Threads :
          /\ pc[t] = "reserve" /\ pc'[t] = "push"
          /\ start_pos' = start_pos + StrippedLen(local[t].raw) + 1
          /\ local'[t].start_pos = start_pos)
  /\ (files' # files =>
        \E t \in Threads :
          /\ pc[t] = "push"
          /\ Len(files') = Len(files) + 1
          /\ files'[Len(files')].start_pos = local[t].start_pos
          /\ files'[Len(files')].end_pos = local[t].start_pos + StrippedLen(local[t].raw))

\* C2: the position counter starts at 1, every registration of a source of
\* n bytes (BOM dropped) advances it by n + 1 and yields a file with
\* start_pos = the counter before and end_pos = start_pos + n.
C2_Counter ==
  /\ start_pos = 1
  /\ [](C2_CounterState)
  /\ [][C2_CounterStep]_vars

\* A source with a BOM has been registered after another file.
C2_Witness ==
  \E i \in 2..Len(files) : \E t \in Threads :
    /\ pc[t] = "ret"
    /\ starts_with_bom(local[t].raw)
    /\ files[i].start_pos = local[t].start_pos
    /\ Len(files[i].src) = Len(local[t].raw) - 3

\* C3: in every reachable state the files vector is ordered by strictly
\* increasing start_pos.
C3_SortedByStartPos ==
  \A i \in 1..Len(files) : \A j \in 1..Len(files) :
    i < j => files[i].start_pos < files[j].start_pos

\* Two registrations are in progress at once: one holds the lock and has
\* pushed its file, the other waits for the lock, and an empty file is in
\* the vector before another file.
C3_Witness ==
  /\ \E t, u \in Threads : pc[t] = "ret" /\ pc[u] = "acquire"
  /\ \E i \in 1..Len(files) : i < Len(files) /\ files[i].start_pos = files[i].end_pos

(***************************************************************************)
(* Claims on lookups (SpecQ)                                               *)
(***************************************************************************)
\* pos lies in the range start_pos..end_pos of file i, the gap position
\* end_pos included.
InRange(i, pos) == files[i].start_pos <= pos /\ pos <= files[i].end_pos

\* C4: for every registered file f and every position p with
\* f.start_pos <= p <= f.end_pos, lookup_byte_offset(p) returns f and the
\* offset p - f.start_pos.
C4_LookupByteOffset ==
  res.op = "lookup_byte_offset" =>
    \A i \in 1..Len(files) :
      InRange(i, res.lo) =>
        res.out = [tag |-> "Ok", sf |-> i, pos |-> res.lo - files[i].start_pos]

\* The gap position of a non-empty file that is followed by an empty file
\* was looked up and resolved to the non-empty file with offset len(src).
C4_Witness ==
  /\ res.op = "lookup_byte_offset"
  /\ \E i \in 1..Len(files) :
       /\ i + 1 < Len(files)
       /\ Len(files[i].src) > 0
       /\ Len(files[i + 1].src) = 0
       /\ res.lo = files[i].end_pos
       /\ res.out.tag = "Ok" /\ res.out.sf = i /\ res.out.pos = Len(files[i].src)

\* C5 as stated: try_lookup_source_file(pos) fails with NoFileFor(pos)
\* whenever pos is the dummy position or lies outside the range of every
\* registered file, and returns a file only when pos lies in its range.
C5_NoFileForOutsideRanges ==
  res.op = "try_lookup_source_file" =>
    /\ (is_dummy(res.lo) \/ \A i \in 1..Len(files) : ~InRange(i, res.lo)) =>
         res.out = [tag |-> "NoFileFor", sf |-> 0, pos |-> res.lo]
    /\ res.out.tag = "Ok" => InRange(res.out.sf, res.lo)

\* C5 amended: try_lookup_source_file(pos) fails with NoFileFor(pos) exactly
\* when pos is the dummy position or no file is registered; otherwise it
\* returns the file with the greatest start_pos <= pos, which holds pos in
\* its range unless pos lies beyond the end_pos of the last file, and then
\* the last file is returned.
C5_NoFileForDummyOrEmptyMap ==
  res.op = "try_lookup_source_file" =>
    /\ res.out.tag \in {"Ok", "NoFileFor"}
    /\ res.out.tag = "NoFileFor" <=> (res.lo = 0 \/ Len(files) = 0)
    /\ res.out.tag = "NoFileFor" => res.out.pos = res.lo
    /\ res.out.tag = "Ok" =>
         /\ res.out.sf \in 1..Len(files)
         /\ files[res.out.sf].start_pos <= res.lo
         /\ \A j \in 1..Len(files) :
              files[j].start_pos <= res.lo => files[j].start_pos <= files[res.out.sf].start_pos
         /\ ~InRange(res.out.sf, res.lo) =>
              res.out.sf = Len(files) /\ res.lo > files[Len(files)].end_pos

\* A position beyond the end_pos of the last of several files was looked up
\* and the last file was returned.
C5_Witness ==
  /\ res.op = "try_lookup_source_file"
  /\ Len(files) >= 2
  /\ res.lo > files[Len(files)].end_pos
  /\ res.out.tag = "Ok" /\ res.out.sf = Len(files)

\* What C6 says of lookup_char_pos(p) for p in file i: the Loc returned names
\* file i, its line is a + 1 for the line start a that holds p, and its col
\* is the difference of the char positions of p and of that line start.
C6_LocOf(i) ==
  LET f == files[i]
      ls == lines(f)
      p == res.lo
  IN /\ res.out.tag = "Ok"
     /\ res.out.sf = i
     /\ \E a \in 0..(Len(ls) - 1) :
          /\ res.out.line = a + 1
          /\ ls[a + 1] <= p
          /\ (a + 1 < Len(ls) => p < ls[a + 2])
          /\ (a + 1 = Len(ls) => p < f.end_pos)
          /\ LET cp == bytepos_to_file_charpos_with(f, p, res.debug)
                 cl == bytepos_to_file_charpos_with(f, ls[a + 1], res.debug)
             IN cp.tag = "Ok" /\ cl.tag = "Ok" /\ res.out.col = cp.val - cl.val

\* C6 as stated: for every position p inside a registered non-empty file,
\* lookup_char_pos(p) returns that file, the line and the col.
C6_EveryPosition ==
  res.op = "lookup_char_pos" =>
    \A i \in 1..Len(files) :
      (Len(files[i].src) > 0 /\ files[i].start_pos <= res.lo /\ res.lo < files[i].end_pos)
        => C6_LocOf(i)

\* C6 amended: for every position p inside a registered non-empty file that
\* is a character boundary, lookup_char_pos(p) returns that file, line =
\* a + 1 and col = charpos(p) - charpos(line_starts[a]); the assertion
\* pos >= line_starts[a] is violated on no call.
C6_CharBoundaryPosition ==
  res.op = "lookup_char_pos" =>
    /\ res.out.why # "assert pos >= linebpos"
    /\ \A i \in 1..Len(files) :
         (/\ Len(files[i].src) > 0
          /\ files[i].start_pos <= res.lo /\ res.lo < files[i].end_pos
          /\ is_char_boundary(files[i].src, res.lo - files[i].start_pos))
           => C6_LocOf(i)

\* A position after a multibyte character on a line of a later file was
\* looked up: the col is smaller than the byte distance to the line start.
C6_Witness ==
  /\ res.op = "lookup_char_pos"
  /\ res.out.tag = "Ok"
  /\ res.out.sf >= 2
  /\ res.out.line >= 1
  /\ res.out.col >= 1
  /\ res.out.col < res.lo - lines(files[res.out.sf])[res.out.line]

\* C10 as stated: span_to_snippet(Span(f.start_pos, f.end_pos)) returns the
\* full source of f, and every span lo <= hi inside f returns
\* src[lo - start_pos .. hi - start_pos].
C10_EverySpanInside ==
  res.op = "span_to_snippet" =>
    \A i \in 1..Len(files) :
      (files[i].start_pos <= res.lo /\ res.lo <= res.hi /\ res.hi <= files[i].end_pos) =>
        res.out = [tag |-> "Ok",
                   text |-> SubSeq(files[i].src, res.lo - files[i].start_pos + 1,
                                   res.hi - files[i].start_pos)]

\* C10 amended: span_to_snippet(Span(f.start_pos, f.end_pos)) returns the
\* full source of f for every registered file; a span lo <= hi inside f
\* whose two endpoints are character boundaries returns
\* src[lo - start_pos .. hi - start_pos], also when hi = end_pos; a span
\* inside f with an endpoint in the middle of a character panics.
C10_SnippetAtCharBoundaries ==
  res.op = "span_to_snippet" =>
    \A i \in 1..Len(files) :
      LET f == files[i]
      IN /\ (res.lo = f.start_pos /\ res.hi = f.end_pos) =>
              res.out = [tag |-> "Ok", text |-> f.src]
         /\ (f.start_pos <= res.lo /\ res.lo <= res.hi /\ res.hi <= f.end_pos) =>
              IF /\ is_char_boundary(f.src, res.lo - f.start_pos)
                 /\ is_char_boundary(f.src, res.hi - f.start_pos)
              THEN res.out = [tag |-> "Ok",
                              text |-> SubSeq(f.src, res.lo - f.start_pos + 1,
                                              res.hi - f.start_pos)]
              ELSE res.out.tag = "panic"

\* The snippet of the whole of a non-empty middle file was taken.
C10_Witness ==
  /\ res.op = "span_to_snippet"
  /\ Len(files) >= 3
  /\ \E i \in 2..(Len(files) - 1) :
       /\ res.lo = files[i].start_pos
       /\ res.hi = files[i].end_pos
       /\ Len(files[i].src) > 1
       /\ res.out.tag = "Ok"
       /\ res.out.text = files[i].src

(***************************************************************************)
(* Claims on the byte -> char conversion (SpecCursor)                      *)
(***************************************************************************)
RECURSIVE SumBytesMinusOne(_, _)
\* Sum of (bytes - 1) over the multibyte chars of mbcs that start before
\* pos.
SumBytesMinusOne(mbcs, pos) ==
  IF mbcs = <<>> THEN 0
  ELSE (IF mbcs[1].pos < pos THEN mbcs[1].bytes - 1 ELSE 0)
       + SumBytesMinusOne(Tail(mbcs), pos)

RECURSIVE SumBytesMinusUnits(_, _)
\* Sum of (bytes - UTF-16 code units) over the multibyte chars of mbcs that
\* start before pos: a 4-byte char takes 2 code units, the others 1.
SumBytesMinusUnits(mbcs, pos) ==
  IF mbcs = <<>> THEN 0
  ELSE (IF mbcs[1].pos < pos
        THEN (IF mbcs[1].bytes = 4 THEN 2 ELSE mbcs[1].bytes - 1) ELSE 0)
       + SumBytesMinusUnits(Tail(mbcs), pos)

RECURSIVE Utf16Units(_, _, _)
\* Number of UTF-16 code units of the characters of s that start at the
\* byte indexes i .. n (1-based), walking character by character.
Utf16Units(s, i, n) ==
  IF i > n \/ i > Len(s) THEN 0
  ELSE len_utf16(s[i]) + Utf16Units(s, i + len_utf8(s[i]), n)

\* The file of the last bytepos_to_file_charpos_with query (its index is
\* kept in res.hi).
CharPosFile == files[res.hi]

\* C7 as stated: at a character boundary pos, the byte-to-char conversion
\* returns (pos - start_pos) - the sum of (bytes - 1) over the multibyte
\* characters before pos.
C7_CharPosCountsScalars ==
  res.op = "bytepos_to_file_charpos_with" =>
    /\ res.out.tag = "Ok"
    /\ res.out.val = (res.lo - CharPosFile.start_pos)
                     - SumBytesMinusOne(multibyte_chars(CharPosFile), res.lo)

\* C7 amended: at a character boundary pos, the byte-to-char conversion
\* returns (pos - start_pos) - total_extra_bytes where total_extra_bytes is
\* the sum of (bytes - UTF-16 code units) over the multibyte characters
\* before pos: bytes - 1 for a 2- or 3-byte character, 2 for a 4-byte one.
C7_CharPosCountsUtf16Diff ==
  res.op = "bytepos_to_file_charpos_with" =>
    /\ res.out.tag = "Ok"
    /\ res.out.val = (res.lo - CharPosFile.start_pos)
                     - SumBytesMinusUnits(multibyte_chars(CharPosFile), res.lo)

\* The conversion was made at a position of a later file that has a 2-, a
\* 3- and a 4-byte character before it.
C7_Witness ==
  /\ res.op = "bytepos_to_file_charpos_with"
  /\ res.hi >= 2
  /\ res.out.tag = "Ok"
  /\ \A w \in {2, 3, 4} :
       \E k \in 1..Len(multibyte_chars(CharPosFile)) :
         /\ multibyte_chars(CharPosFile)[k].bytes = w
         /\ multibyte_chars(CharPosFile)[k].pos < res.lo

\* C8: for every character boundary b of a file, b - calc_utf16_offset(file,
\* b, state) is start_pos + the number of UTF-16 code units of the text
\* before b, and bytepos_to_file_charpos_with(file, b) is that number.
C8_Utf16Units ==
  /\ res.op = "calc_utf16_offset" =>
       res.lo - res.out.val
         = files[cur.file].start_pos
           + Utf16Units(files[cur.file].src, 1, res.lo - files[cur.file].start_pos)
  /\ res.op = "bytepos_to_file_charpos_with" =>
       /\ res.out.tag = "Ok"
       /\ res.out.val = Utf16Units(CharPosFile.src, 1, res.lo - CharPosFile.start_pos)

\* calc_utf16_offset was called at a boundary behind a 4-byte character and
\* behind another multibyte character.
C8_Witness ==
  /\ res.op = "calc_utf16_offset"
  /\ res.out.val >= 3
  /\ \E k \in 1..Len(multibyte_chars(files[cur.file])) :
       /\ multibyte_chars(files[cur.file])[k].bytes = 4
       /\ multibyte_chars(files[cur.file])[k].pos < res.lo

\* The multibyte chars of mbcs that start before pos.
McbsBefore(mbcs, pos) == {k \in 1..Len(mbcs) : mbcs[k].pos < pos}

\* C9 (state part): the state in use has mbc_index = the number of
\* multibyte characters before its pos and total_extra_bytes = the sum of
\* their diffs.
C9_StateOf(f, state) ==
  /\ state.mbc_index = Cardinality(McbsBefore(multibyte_chars(f), state.pos))
  /\ state.total_extra_bytes = SumBytesMinusUnits(multibyte_chars(f), state.pos)

\* C9: with one ByteToCharPosState reused for queries at character
\* boundaries of one file in any order, each call of calc_utf16_offset
\* returns what a call with a default state returns, leaves mbc_index and
\* total_extra_bytes as the count and the sum of diffs of the multibyte
\* characters before the queried position, and no subtraction underflows.
C9_CursorEqualsFresh ==
  /\ cur.file # 0 => C9_StateOf(files[cur.file], cur.state)
  /\ res.op = "calc_utf16_offset" =>
       /\ res.out.val = calc_utf16_offset(files[cur.file], res.lo, default_state).total_extra_bytes
       /\ ~res.out.bad
       /\ cur.state.pos = res.lo
       /\ res.out.val = cur.state.total_extra_bytes

\* A backward call rewound the state to the first multibyte character of a
\* file that starts with one and has three of them.
C9_Witness ==
  /\ res.op = "calc_utf16_offset"
  /\ res.out.branch = "backward"
  /\ Len(multibyte_chars(files[cur.file])) >= 3
  /\ res.lo = multibyte_chars(files[cur.file])[1].pos
  /\ res.out.val = 0

(***************************************************************************)
(* Claims on span queries (SpecQ)                                          *)
(***************************************************************************)
\* The file a position resolves to: the file whose closed range holds it,
\* the last file for a position beyond every range, 0 for the dummy and for
\* an empty map.
ResolvedFile(pos) ==
  IF pos = 0 \/ Len(files) = 0 THEN 0
  ELSE IF \E i \in 1..Len(files) : InRange(i, pos)
       THEN CHOOSE i \in 1..Len(files) : InRange(i, pos)
       ELSE Len(files)

\* The case of the span lo..hi in the order C11 lists them.
C11_Case(lo, hi) ==
  IF lo > hi THEN "IllFormedSpan"
  ELSE IF lo = 0 \/ hi = 0 THEN "DummyBytePos"
  ELSE IF ResolvedFile(lo) = 0 \/ ResolvedFile(hi) = 0 THEN "NoFileFor"
  ELSE IF ResolvedFile(lo) # ResolvedFile(hi) THEN "DistinctSources"
  ELSE IF hi - files[ResolvedFile(hi)].start_pos > Len(files[ResolvedFile(hi)].src)
       THEN "MalformedForSourcemap"
       ELSE "Ok"

\* The slice src[lo - start_pos .. hi - start_pos] of the file of lo.
C11_Slice(lo, hi) ==
  LET f == files[ResolvedFile(lo)]
  IN SubSeq(f.src, lo - f.start_pos + 1, hi - f.start_pos)

\* C11 as stated: span_to_snippet returns an error and no text in exactly
\* these cases, in this order: IllFormedSpan when lo > hi; else DummyBytePos
\* when lo or hi is the dummy; else the lookup error when an endpoint has no
\* file; else DistinctSources when the endpoints resolve to different files;
\* else MalformedForSourcemap when the local end index exceeds the source
\* length; in every other case it returns the slice.
C11_ErrorOrSlice ==
  res.op = "span_to_snippet" =>
    LET case == C11_Case(res.lo, res.hi)
    IN IF case = "Ok"
       THEN res.out = [tag |-> "Ok", text |-> C11_Slice(res.lo, res.hi)]
       ELSE res.out = [tag |-> case, text |-> <<>>]

\* C11 amended: the same errors in the same order; in every other case
\* span_to_snippet returns the slice when both local indexes are character
\* boundaries of the source, and panics in the string slice when one is not.
C11_ErrorOrSliceOrPanic ==
  res.op = "span_to_snippet" =>
    LET case == C11_Case(res.lo, res.hi)
        f == files[ResolvedFile(res.lo)]
    IN IF case # "Ok" THEN res.out = [tag |-> case, text |-> <<>>]
       ELSE IF /\ is_char_boundary(f.src, res.lo - f.start_pos)
               /\ is_char_boundary(f.src, res.hi - f.start_pos)
            THEN res.out = [tag |-> "Ok", text |-> C11_Slice(res.lo, res.hi)]
            ELSE res.out = [tag |-> "panic", text |-> <<>>]

\* A span with lo > hi and a dummy hi was answered with IllFormedSpan while
\* files are registered.
C11_Witness ==
  /\ res.op = "span_to_snippet"
  /\ Len(files) >= 2
  /\ res.lo > res.hi
  /\ res.hi = 0
  /\ res.out.tag = "IllFormedSpan"

\* The line starts of file f as absolute positions: start_pos and the
\* position behind every '\n'.
LineStarts(f) ==
  {f.start_pos} \cup {f.start_pos + k : k \in {j \in 1..Len(f.src) : f.src[j] = 10}}

\* The start of the line that holds position pos of file f.
LineStartOf(f, pos) ==
  CHOOSE b \in LineStarts(f) : b <= pos /\ \A c \in LineStarts(f) : c <= pos => c <= b

\* The 0-based index of the line that holds position pos of file f.
LineIndexOf(f, pos) == Cardinality({b \in LineStarts(f) : b <= pos}) - 1

\* The column of pos: the UTF-16 code units between its line start and pos.
ColOf(f, pos) ==
  Utf16Units(f.src, LineStartOf(f, pos) - f.start_pos + 1, pos - f.start_pos)

\* The number of characters of the line of f that starts at b, its line
\* break not counted.
LineLenAt(f, b) ==
  LET from == b - f.start_pos + 1
      nls == {j \in from..Len(f.src) : f.src[j] = 10}
      to == IF nls = {} THEN Len(f.src) ELSE (CHOOSE j \in nls : \A k \in nls : j <= k) - 1
  IN Cardinality({j \in from..to : ~IsCont(f.src[j])})

\* The start of line number idx (0-based) of file f.
LineStartNo(f, idx) ==
  CHOOSE b \in LineStarts(f) : Cardinality({c \in LineStarts(f) : c < b}) = idx

\* What C12 says of the result out for the span lo..hi inside the non-empty
\* file i.
C12_LinesOf(i, lo, hi, out) ==
  LET f == files[i]
      first == LineIndexOf(f, lo)
      last == LineIndexOf(f, hi)
      n == last - first + 1
  IN /\ out.tag = "Ok"
     /\ out.sf = i
     /\ Len(out.lines) = n
     /\ \A k \in 1..n :
          /\ out.lines[k].line_index = first + k - 1
          /\ out.lines[k].start_col = IF k = 1 THEN ColOf(f, lo) ELSE 0
          /\ out.lines[k].end_col = IF k < n THEN LineLenAt(f, LineStartNo(f, first + k - 1))
                                    ELSE ColOf(f, hi)
     /\ hi = f.end_pos => out.lines[n].line_index = Cardinality(LineStarts(f)) - 1

\* C12 as stated: for a well-formed span inside one non-empty file,
\* span_to_lines returns one LineInfo per line from the line of lo to the
\* line of hi with consecutive 0-based indexes; the first entry starts at
\* lo's column, later entries at column 0, every entry except the last ends
\* at its line's length in characters, the last ends at hi's column; a span
\* that ends at end_pos has the last line as its final entry.
C12_EverySpanInside ==
  res.op = "span_to_lines" =>
    \A i \in 1..Len(files) :
      (/\ files[i].src # <<>>
       /\ files[i].start_pos <= res.lo /\ res.lo <= res.hi /\ res.hi <= files[i].end_pos) =>
        C12_LinesOf(i, res.lo, res.hi, res.out)

\* C12 amended: the same for a well-formed span inside one non-empty file
\* whose two endpoints are character boundaries of the text.
C12_SpanAtCharBoundaries ==
  res.op = "span_to_lines" =>
    \A i \in 1..Len(files) :
      (/\ files[i].src # <<>>
       /\ files[i].start_pos <= res.lo /\ res.lo <= res.hi /\ res.hi <= files[i].end_pos
       /\ is_char_boundary(files[i].src, res.lo - files[i].start_pos)
       /\ is_char_boundary(files[i].src, res.hi - files[i].start_pos)) =>
        C12_LinesOf(i, res.lo, res.hi, res.out)

\* span_to_lines answered with two lines for a span of a later file that
\* starts partway through its first line and ends at end_pos.
C12_Witness ==
  /\ res.op = "span_to_lines"
  /\ res.out.tag = "Ok"
  /\ res.out.sf >= 2
  /\ Len(res.out.lines) = 2
  /\ res.out.lines[1].start_col >= 1
  /\ res.out.lines[1].end_col >= 1
  /\ res.hi = files[res.out.sf].end_pos

\* Position pos lies inside a multibyte character of the file it resolves to.
InsideChar(pos) ==
  /\ ResolvedFile(pos) # 0
  /\ LET f == files[ResolvedFile(pos)]
         idx == pos - f.start_pos
     IN idx < Len(f.src) /\ IsCont(f.src[idx + 1])

\* The span lo..hi lies in the empty file i.
InEmptyFile(i, lo, hi) ==
  /\ files[i].src = <<>>
  /\ lo = files[i].start_pos
  /\ hi = files[i].start_pos

\* C13 as stated: span_to_lines returns IllFormedSpan when lo > hi,
\* DistinctSources when lo and hi resolve to different files, and an empty
\* line list without an error when the span lies in an empty file.
C13_ErrorsOfSpanToLines ==
  res.op = "span_to_lines" =>
    /\ res.lo > res.hi => res.out.tag = "IllFormedSpan"
    /\ (/\ res.lo <= res.hi
        /\ ResolvedFile(res.lo) # 0 /\ ResolvedFile(res.hi) # 0
        /\ ResolvedFile(res.lo) # ResolvedFile(res.hi)) => res.out.tag = "DistinctSources"
    /\ \A i \in 1..Len(files) :
         InEmptyFile(i, res.lo, res.hi) => res.out = FileLines("Ok", i, <<>>)

\* C13 amended: IllFormedSpan when lo > hi; DistinctSources when lo and hi
\* resolve to different files and neither lies inside a multibyte
\* character; an empty line list without an error when the span lies in an
\* empty file.
C13_ErrorsAtCharBoundaries ==
  res.op = "span_to_lines" =>
    /\ res.lo > res.hi => res.out.tag = "IllFormedSpan"
    /\ (/\ res.lo <= res.hi
        /\ ResolvedFile(res.lo) # 0 /\ ResolvedFile(res.hi) # 0
        /\ ResolvedFile(res.lo) # ResolvedFile(res.hi)
        /\ ~InsideChar(res.lo) /\ ~InsideChar(res.hi)) => res.out.tag = "DistinctSources"
    /\ \A i \in 1..Len(files) :
         InEmptyFile(i, res.lo, res.hi) => res.out = FileLines("Ok", i, <<>>)

\* span_to_lines answered DistinctSources for a span from a file with text
\* to an empty file behind it.
C13_Witness ==
  /\ res.op = "span_to_lines"
  /\ res.out.tag = "DistinctSources"
  /\ files[ResolvedFile(res.lo)].src # <<>>
  /\ files[ResolvedFile(res.hi)].src = <<>>

(***************************************************************************)
(* Claims on merge_spans and the span adjusters (SpecSpan)                 *)
(***************************************************************************)
\* The two spans of the last merge_spans query.
MergeLhs == Span(res.lo, res.hi)

MergeRhs == res.arg

\* Both spans live in the one file i.
SpansInFile(i, a, b) ==
  /\ InRange(i, a.lo) /\ InRange(i, a.hi)
  /\ InRange(i, b.lo) /\ InRange(i, b.hi)

\* C14: merge_spans(lhs, rhs) returns Some(union) iff lhs and rhs live in
\* the same file, lhs.hi <= rhs.lo, and the line of lhs.hi equals the line
\* of rhs.lo; otherwise it returns None.
C14_MergeIff ==
  res.op = "merge_spans" =>
    IF \E i \in 1..Len(files) :
         /\ SpansInFile(i, MergeLhs, MergeRhs)
         /\ MergeLhs.hi <= MergeRhs.lo
         /\ LineIndexOf(files[i], MergeLhs.hi) = LineIndexOf(files[i], MergeRhs.lo)
    THEN res.out = OptSpan("Some", Span(Min(MergeLhs.lo, MergeRhs.lo),
                                        Max(MergeLhs.hi, MergeRhs.hi)))
    ELSE res.out.tag = "None"

\* C15: whenever merge_spans(a, b) returns Some(u), u.lo = a.lo, u.hi = b.hi
\* and both endpoints of u lie in one single registered file.
C15_MergeLaw ==
  (res.op = "merge_spans" /\ res.out.tag = "Some") =>
    /\ res.out.lo = MergeLhs.lo
    /\ res.out.hi = MergeRhs.hi
    /\ \E i \in 1..Len(files) : InRange(i, res.out.lo) /\ InRange(i, res.out.hi)

\* The text an adjuster searches for the span lo..hi of file f: the text
\* before the span, the text behind it, or the text of the span.
C16_Region(op, f, lo, hi) ==
  IF op = "span_extend_to_prev_char" THEN SubSeq(f.src, 1, lo - f.start_pos)
  ELSE IF op = "span_extend_to_next_char" THEN SubSeq(f.src, hi - f.start_pos + 1, Len(f.src))
  ELSE SubSeq(f.src, lo - f.start_pos + 1, hi - f.start_pos)

C16_Adjusters ==
  {"span_extend_to_prev_char", "span_extend_to_next_char", "span_until_char",
   "span_through_char"}

\* C16: if the target character is absent from the region an adjuster
\* searches, the adjuster returns the input span unchanged, whatever other
\* text (leading or trailing whitespace included) the region contains.
C16_NoMatchUnchanged ==
  (res.op \in C16_Adjusters /\ C11_Case(res.lo, res.hi) = "Ok") =>
    LET region == C16_Region(res.op, files[ResolvedFile(res.lo)], res.lo, res.hi)
    IN (\A k \in 1..Len(region) : region[k] # res.arg) =>
         res.out = AdjSpan(res.lo, res.hi)

\* C17: for every span, the dummy span, a span with lo > hi and a span with
\* an endpoint in no file included, also while no file is registered,
\* span_to_lines, merge_spans, is_multiline and span_to_snippet end with an
\* error, None or a plain result, and never with a panic.
C17_NoPanic ==
  res.op \in {"span_to_lines", "merge_spans", "is_multiline", "span_to_snippet"} =>
    res.out.tag # "panic"

(***************************************************************************)
(* Claims on build_source_map (SpecEmit)                                   *)
(***************************************************************************)
\* The loop has taken the mapping em.last.
Taken == em.status # "idle" /\ em.last.kind # "none"

\* The file of the map the source position pos belongs to, 0 for the dummy,
\* the reserved range and u32::MAX.
FileOfMapping(pos) ==
  IF is_reserved_for_comments(pos) \/ pos = U32_MAX THEN 0 ELSE ResolvedFile(pos)

\* The mapping of source position pos can be located: pos belongs to a
\* file that is not skipped and has a line.
Locatable(pos) ==
  /\ FileOfMapping(pos) # 0
  /\ FileOfMapping(pos) \notin em.skip
  /\ Len(files[FileOfMapping(pos)].src) > 0

\* The located records on generated line l.
LocatedOnLine(l) == em.tokens_on_line[l] - em.markers_on_line[l]

\* With emit_columns true every locatable mapping is emitted as a record.
C18_EveryLocatableEmitted ==
  (Taken /\ em.emit_columns /\ Locatable(em.last.pos))
    => /\ em.last.kind = "token"
       /\ em.last.token.dst_line = em.last.lc.line
       /\ em.last.token.dst_col = em.last.lc.col

\* C18 as stated: with emit_columns false at most one record per generated
\* line, lists with u32::MAX markers included; with emit_columns true one
\* record for every locatable mapping.
C18_OneRecordPerLine ==
  /\ (em.status # "idle" /\ ~em.emit_columns)
       => \A l \in GenLines : em.tokens_on_line[l] <= 1
  /\ C18_EveryLocatableEmitted

\* C18: with emit_columns false build_source_map emits at most one located
\* record per generated line, and every u32::MAX marker as a record of its
\* own beside it; with emit_columns true it emits one record for every
\* locatable mapping.
C18_OneLocatedPerLine ==
  /\ (em.status # "idle" /\ ~em.emit_columns)
       => \A l \in GenLines : LocatedOnLine(l) <= 1
  /\ (Taken /\ em.last.pos = U32_MAX)
       => em.last.kind = "marker" /\ em.tokens_on_line[em.last.lc.line] >= 1
  /\ C18_EveryLocatableEmitted

\* The second of two locatable mappings on generated line 0 was taken with
\* emit_columns false and left the line with its one record.
C18_Witness ==
  /\ Taken /\ ~em.emit_columns
  /\ Locatable(em.last.pos)
  /\ em.last.lc = LineCol(0, 1)
  /\ em.last.kind = "drop"
  /\ em.tokens_on_line[0] = 1 /\ em.markers_on_line[0] = 0

\* No record for a position in a skipped file, and no skipped file among
\* the sources.
C19_SkippedSuppressed ==
  /\ (Taken /\ \E i \in em.skip : InRange(i, em.last.pos))
       => em.last.kind = "skip"
  /\ em.status # "idle"
       => \A k \in 1..Len(em.sources) : em.sources[k] \notin em.skip

\* The record of the last mapping carries the source id of the file its
\* position belongs to.
C19_OwnSourceId ==
  /\ em.last.kind = "token"
  /\ em.last.token.src_id < Len(em.sources)
  /\ em.sources[em.last.token.src_id + 1] = FileOfMapping(em.last.pos)

\* The last mapping belongs to a non-skipped file and follows a mapping of
\* a skipped one.
C19_AfterSkipped ==
  /\ Taken /\ em.after_skip
  /\ FileOfMapping(em.last.pos) # 0
  /\ FileOfMapping(em.last.pos) \notin em.skip

\* C19 as stated: no record for a position in a skipped file, no skipped
\* file among the sources, and every mapping of a non-skipped file that
\* follows a skipped one is emitted with the source id of its own file.
C19_SkipInterleaved ==
  /\ C19_SkippedSuppressed
  /\ C19_AfterSkipped => C19_OwnSourceId

\* C19: no record for a position in a skipped file, no skipped file among
\* the sources, and a mapping of a non-skipped file that follows a skipped
\* one is emitted with the source id of its own file unless the file is
\* empty or emit_columns is false and its generated line has a located
\* record already.
C19_SkipInterleavedLocatable ==
  /\ C19_SkippedSuppressed
  /\ (C19_AfterSkipped /\ Locatable(em.last.pos))
       => \/ C19_OwnSourceId
          \/ /\ ~em.emit_columns
             /\ em.last.kind = "drop"
             /\ LocatedOnLine(em.last.lc.line) = 1

\* A mapping of a non-skipped file was emitted right behind a mapping of a
\* skipped file, after an earlier record of another source.
C19_Witness ==
  /\ C19_AfterSkipped
  /\ C19_OwnSourceId
  /\ em.skip # {}
  /\ em.tokens_on_line[0] + em.tokens_on_line[1] >= 2

\* C20: for a mapping whose source position is BytePos(0), whatever its
\* generated line and column, or lies in the reserved comment range,
\* build_source_map does not panic, emits no record for it and goes on
\* with the following mappings.
C20_DummyTolerated ==
  (Taken /\ (is_dummy(em.last.pos) \/ is_reserved_for_comments(em.last.pos)))
    => em.last.kind = "drop" /\ em.status = "running"

\* The step is one turn of the loop over a mapping of source position
\* u32::MAX.
C21_MarkerStep ==
  /\ em.status = "running" /\ em'.status # "idle"
  /\ em'.last # em.last
  /\ em'.last.pos = U32_MAX

\* What C21 says of the turn over a u32::MAX mapping.
C21_MarkerEffect ==
  /\ em'.status = "running"
  /\ em'.last.kind = "marker"
  /\ em'.last.token = RawToken(em'.last.lc.line, em'.last.lc.col, 0, 0, em.src_id, NoName)
  /\ em.cur_file # 0 => em.sources[em'.last.token.src_id + 1] = em.cur_file
  /\ em'.tokens_on_line[em'.last.lc.line] = em.tokens_on_line[em'.last.lc.line] + 1
  /\ em'.sources = em.sources
  /\ em'.src_id = em.src_id
  /\ em'.cur_file = em.cur_file
  /\ em'.ch_state = em.ch_state
  /\ em'.line_state = em.line_state
  /\ em'.prev_dst_line = em.prev_dst_line

\* C21: a mapping of source position u32::MAX is emitted as a record with
\* the mapping's generated line and column, source line 0, source column 0,
\* the source id of the most recently resolved file; no file is looked up,
\* and the current file, both cursor states and the previous generated line
\* stay as they are.
C21_MarkerFrame == [][C21_MarkerStep => C21_MarkerEffect]_vars

\* A marker was emitted on generated line 1 after a located record of the
\* second source on line 0, with cursor states that have advanced.
C21_Witness ==
  /\ Taken /\ em.last.kind = "marker"
  /\ em.last.lc.line = 1
  /\ em.cur_file # 0 /\ em.src_id = 1
  /\ em.last.token.src_id = 1
  /\ em.prev_dst_line = 0
  /\ em.ch_state # default_state

\* The UTF-16 column of pos in file f computed with fresh cursor states.
C24_FreshCol(f, pos, linebpos) ==
  (pos - calc_utf16_offset(f, pos, default_state).total_extra_bytes)
    - (linebpos - calc_utf16_offset(f, linebpos, default_state).total_extra_bytes)

\* The record of the last mapping has the source line and column of a
\* fresh computation in file f.
C24_FreshRecord(f, pos, token) ==
  /\ token.src_line = lookup_line(f, pos)
  /\ token.src_col = C24_FreshCol(f, pos, lines(f)[lookup_line(f, pos) + 1])
  /\ (pos <= f.end_pos) =>
       /\ token.src_line = LineIndexOf(f, pos)
       /\ token.src_col = ColOf(f, pos)

\* C24: every record of a located mapping carries the source line and the
\* UTF-16 source column a fresh computation on that mapping alone gives;
\* the current file is the file the lookup returns for the position, and
\* both cursor states belong to the current file.
C24_RecordsAsFresh ==
  /\ (Taken /\ em.last.kind = "token") =>
       /\ em.cur_file = ResolvedFile(em.last.pos)
       /\ C24_FreshRecord(files[ResolvedFile(em.last.pos)], em.last.pos, em.last.token)
  /\ em.cur_file # 0 =>
       /\ C9_StateOf(files[em.cur_file], em.ch_state)
       /\ C9_StateOf(files[em.cur_file], em.line_state)

\* A record behind the 4-byte character on the second line of the second
\* file was emitted after a record of the first file.
C24_Witness ==
  /\ Taken /\ em.last.kind = "token"
  /\ em.cur_file = 2 /\ em.src_id = 1
  /\ em.last.token.src_line = 1
  /\ em.last.token.src_col = 1
  /\ em.ch_state.mbc_index = 1

(***************************************************************************)
(* Claims on positions beyond the last file (SpecQ)                        *)
(***************************************************************************)
\* The positions queried that lie beyond the end_pos of the last file of fs.
BeyondLast(fs) ==
  IF Len(fs) = 0 THEN {} ELSE {p \in QueryPos : p > fs[Len(fs)].end_pos}

\* lookup_source_file_in returns the last file for every position beyond
\* it and None only for the dummy position or an empty list.
C29_LastFileBeyond ==
  /\ \A p \in BeyondLast(files) : lookup_source_file_in(files, p) = Len(files)
  /\ \A p \in QueryPos :
       lookup_source_file_in(files, p) = 0 <=> (is_dummy(p) \/ Len(files) = 0)
  /\ (res.op = "try_lookup_source_file" /\ res.lo \in BeyondLast(files))
       => res.out = [tag |-> "Ok", sf |-> Len(files), pos |-> 0]

\* The answer for a position beyond the last file changes with the
\* registration of a later file.
C29_AnswerChanges ==
  files' # files =>
    \A p \in BeyondLast(files) :
      /\ lookup_source_file_in(files', p) # lookup_source_file_in(files, p)
      /\ lookup_source_file_in(files', p) = Len(files')

\* The last call was span_to_snippet on a well-formed span without a dummy
\* end whose hi lies beyond the last file.
C29_SnippetBeyond ==
  /\ res.op = "span_to_snippet"
  /\ res.lo # 0 /\ res.lo <= res.hi
  /\ res.hi \in BeyondLast(files)

\* C29 as stated: the last file is returned for every position beyond it,
\* the answer changes once a later file is registered, and span_to_snippet
\* on a span whose hi lies beyond the last file reports
\* MalformedForSourcemap.
C29_BeyondLastFile ==
  [][/\ C29_LastFileBeyond
     /\ C29_AnswerChanges
     /\ C29_SnippetBeyond => res.out.tag = "MalformedForSourcemap"]_vars

\* C29: the last file is returned for every position beyond it, the answer
\* changes once a later file is registered, and span_to_snippet on a span
\* whose hi lies beyond the last file never reports a lookup error: it
\* reports MalformedForSourcemap when lo belongs to the last file and
\* DistinctSources when lo belongs to an earlier one.
C29_BeyondLastFileFrom ==
  [][/\ C29_LastFileBeyond
     /\ C29_AnswerChanges
     /\ C29_SnippetBeyond =>
          res.out.tag = IF lookup_source_file_in(files, res.lo) = Len(files)
                        THEN "MalformedForSourcemap" ELSE "DistinctSources"]_vars

\* span_to_snippet on a span from inside the last of two files to a
\* position beyond it reported MalformedForSourcemap.
C29_Witness ==
  /\ C29_SnippetBeyond
  /\ Len(files) = 2
  /\ InRange(2, res.lo) /\ res.lo < files[2].end_pos
  /\ res.out.tag = "MalformedForSourcemap"

(***************************************************************************)
(* Claims on start_point and end_point (SpecQ)                             *)
(***************************************************************************)
\* lo..hi is a non-empty span whose ends are character boundaries of
\* file i.
C26_SpanOfFile(i, lo, hi) ==
  /\ lo < hi
  /\ InRange(i, lo) /\ InRange(i, hi)
  /\ is_char_boundary(files[i].src, lo - files[i].start_pos)
  /\ is_char_boundary(files[i].src, hi - files[i].start_pos)

\* The width in bytes of the character of file i that starts at pos.
C26_WidthAt(i, pos) == len_utf8(files[i].src[pos - files[i].start_pos + 1])

\* The start of the character of file i that ends at pos.
C26_CharBefore(i, pos) ==
  CHOOSE b \in files[i].start_pos..(pos - 1) :
    /\ is_char_boundary(files[i].src, b - files[i].start_pos)
    /\ b + C26_WidthAt(i, b) = pos

\* end_point(sp) is the span of the last character of sp.
C26_EndPoint ==
  \A i \in 1..Len(files) :
    (res.op = "end_point" /\ C26_SpanOfFile(i, res.lo, res.hi))
      => res.out = AdjSpan(C26_CharBefore(i, res.hi), res.hi)

\* C26: for a well-formed non-empty span sp whose ends are character
\* boundaries of one file, start_point(sp) is the span lo..lo+w of the
\* first character of sp and end_point(sp) the span hi-w'..hi of its last
\* character, w and w' the UTF-8 widths of the two characters.
C26_FirstAndLastChar ==
  /\ \A i \in 1..Len(files) :
       (res.op = "start_point" /\ C26_SpanOfFile(i, res.lo, res.hi))
         => res.out = AdjSpan(res.lo, res.lo + C26_WidthAt(i, res.lo))
  /\ C26_EndPoint

(***************************************************************************)
(* Claims on names (SpecNames)                                             *)
(***************************************************************************)
\* The components of a lead the components of p.
IsPrefix(a, p) == Len(a) <= Len(p) /\ \A j \in 1..Len(a) : a[j] = p[j]

\* The rules of path_mapping whose from-prefix matches path p.
MatchingRules(p) == {k \in 1..Len(path_mapping) : IsPrefix(path_mapping[k].from, p)}

\* The last of the rules that match p.
LastMatching(p) == CHOOSE k \in MatchingRules(p) : \A j \in MatchingRules(p) : j <= k

\* What C22 says map_prefix returns for the path p.
C22_Mapped(p) ==
  IF MatchingRules(p) = {} THEN [path |-> p, remapped |-> FALSE]
  ELSE [path |-> join(path_mapping[LastMatching(p)].to,
                      [j \in 1..(Len(p) - Len(path_mapping[LastMatching(p)].from))
                         |-> p[j + Len(path_mapping[LastMatching(p)].from)]]),
        remapped |-> TRUE]

\* C22: map_prefix rewrites the path with the last rule whose from-prefix
\* matches and returns (to joined with the rest, true), or the path itself
\* and false when no rule matches; new_source_file applies it to Real names
\* only, stores every other name unchanged with was_remapped = false, and
\* keeps the original name as the unmapped name.
C22_MapPrefix ==
  /\ res.op = "map_prefix" => res.out.val = C22_Mapped(res.out.arg)
  /\ \A i \in 1..Len(files) :
       /\ files[i].unmapped_path \in FileNames
       /\ IF files[i].unmapped_path.kind = "Real"
          THEN /\ files[i].name = FileName_Real(C22_Mapped(files[i].unmapped_path.path).path)
               /\ files[i].name_was_remapped = C22_Mapped(files[i].unmapped_path.path).remapped
          ELSE /\ files[i].name = files[i].unmapped_path
               /\ ~files[i].name_was_remapped

\* With the rule of "/a/b" behind the rule of "/a", a file registered as
\* Real("/a/b") is stored under the name the later rule gives, a file
\* registered as Real("b") keeps its name, and so does Custom("/a/b").
C22_Witness ==
  /\ Len(path_mapping) = 2 /\ path_mapping[2].from = PathAB /\ path_mapping[1].from = PathA
  /\ Len(files) = 3
  /\ files[1].unmapped_path = FileName_Real(PathAB)
  /\ files[1].name = FileName_Real(<<121>>) /\ files[1].name_was_remapped
  /\ files[2].unmapped_path = FileName_Real(PathB)
  /\ files[2].name = FileName_Real(PathB) /\ ~files[2].name_was_remapped
  /\ files[3].name = FileName_Custom(PathAB) /\ ~files[3].name_was_remapped
  /\ res.op = "map_prefix" /\ res.out.arg = PathAC
  /\ res.out.val = [path |-> <<47, 120, 99>>, remapped |-> TRUE]

\* The files registered with the stable id id.
FilesWithId(id) == {i \in 1..Len(files) : StableSourceFileId_new(files[i]) = id}

\* The file registered last among the files with the stable id id.
LatestWithId(id) == CHOOSE i \in FilesWithId(id) : \A j \in FilesWithId(id) : j <= i

\* C30: the stable-id index maps each stable id to the most recently
\* registered file with that id and every indexed file is in the files
\* vector; files registered under the same name are all kept, with
\* distinct start_pos, and source_file_by_stable_id returns the latest.
C30_IndexLatest ==
  /\ DOMAIN stable_id_to_source_file = {id \in StableIds : FilesWithId(id) # {}}
  /\ \A id \in DOMAIN stable_id_to_source_file :
       /\ stable_id_to_source_file[id] \in 1..Len(files)
       /\ stable_id_to_source_file[id] = LatestWithId(id)
  /\ \A i \in 1..Len(files) : \A j \in 1..Len(files) :
       (i < j /\ files[i].unmapped_path = files[j].unmapped_path) =>
         /\ files[i].start_pos # files[j].start_pos
         /\ StableSourceFileId_new(files[i]) = StableSourceFileId_new(files[j])
         /\ stable_id_to_source_file[StableSourceFileId_new(files[i])] >= j
  /\ res.op = "source_file_by_stable_id" =>
       res.out = IF FilesWithId(res.lo) = {} THEN [tag |-> "None", sf |-> 0]
                 ELSE [tag |-> "Some", sf |-> LatestWithId(res.lo)]

\* Real("/a/b") was registered twice with another file in between, and
\* source_file_by_stable_id of its id returned the third file.
C30_Witness ==
  /\ Len(files) = 3
  /\ files[1].unmapped_path = FileName_Real(PathAB)
  /\ files[3].unmapped_path = FileName_Real(PathAB)
  /\ files[2].unmapped_path = FileName_Anon
  /\ StableSourceFileId_new(files[2]) # StableSourceFileId_new(files[1])
  /\ res.op = "source_file_by_stable_id"
  /\ res.lo = StableSourceFileId_new(files[1])
  /\ res.out = [tag |-> "Some", sf |-> 3]

(***************************************************************************)
(* Claims on the frame of registration (SpecQ)                             *)
(***************************************************************************)
\* The positions of the range of file i.
RangeOf(i) == files[i].start_pos..files[i].end_pos

\* C28: a registration appends one file and leaves every file registered
\* before as it is, and for every position of the range of such a file
\* lookup_byte_offset returns that file and the same offset before and
\* after the registration.
C28_AppendOnly ==
  [][files' # files =>
       /\ Len(files') = Len(files) + 1
       /\ \A i \in 1..Len(files) :
            /\ files'[i] = files[i]
            /\ \A p \in RangeOf(i) :
                 /\ lookup_byte_offset(p) = [tag |-> "Ok", sf |-> i, pos |-> p - files[i].start_pos]
                 /\ lookup_byte_offset(p)' = lookup_byte_offset(p)]_vars

\* After two later registrations a position of the first file, which is
\* not empty, was looked up and the first file returned.
C28_Witness ==
  /\ Len(files) = 3
  /\ Len(files[1].src) > 0
  /\ res.op = "lookup_byte_offset"
  /\ res.lo \in RangeOf(1)
  /\ res.out = [tag |-> "Ok", sf |-> 1, pos |-> res.lo - files[1].start_pos]

(***************************************************************************)
(* Claims on the upstream map (SpecCompose)                                *)
(***************************************************************************)
\* The file the builder knows under the source id k.
FileOfSource(e, k) == e.sources[k + 1]

\* With an upstream map the builder holds no source contents, no
\* ignore-list entry and no name, and name_for_bytepos was never asked.
C27_NothingAttached(e) ==
  /\ e.sources_content = <<>>
  /\ e.ignore_list = {}
  /\ e.names = <<>>
  /\ ~e.name_queries
  /\ e.last.token.name = NoName

\* Without an upstream map a source has contents, and these are the text of
\* its file, exactly when inline_sources_content holds for the file, and is
\* on the ignore list exactly when ignore_list holds for it.
C27_AttachedAsConfigured(e) ==
  \A k \in 0..(Len(e.sources) - 1) :
    /\ (k \in DOMAIN e.sources_content) <=> (FileOfSource(e, k) \in e.inline)
    /\ (k \in DOMAIN e.sources_content)
         => e.sources_content[k] = files[FileOfSource(e, k)].src
    /\ (k \in e.ignore_list) <=> (FileOfSource(e, k) \in e.ignore)

\* The call returns: with an upstream map the value is that map after
\* adjust_mappings(new_map), new_map holding the sources of the builder and
\* no contents, ignore list or names; without one it is the new map.
C27_Returned ==
  (em.status = "running" /\ em'.status = "idle")
    => /\ res'.op = "build_source_map"
       /\ res'.out.tag = IF em.orig THEN "orig.adjust_mappings" ELSE "map"
       /\ res'.out.map.sources = em.sources
       /\ res'.out.map.sources_content = em.sources_content
       /\ res'.out.map.ignore_list = em.ignore_list
       /\ res'.out.map.names = em.names
       /\ em.orig => /\ res'.out.map.sources_content = <<>>
                      /\ res'.out.map.ignore_list = {}
                      /\ res'.out.map.names = <<>>

\* C27: when an upstream map is passed to build_source_map the emitter
\* never attaches source contents, never adds an ignore-list entry and never
\* records a name (name_for_bytepos is not consulted), and the value returned
\* is the upstream map after adjust_mappings(new_map); when none is passed,
\* source contents and the ignore-list entry are added for a file exactly
\* when inline_sources_content and ignore_list return true for its name.
C27_UpstreamMap ==
  [][/\ em'.status = "running" /\ em'.orig => C27_NothingAttached(em')
     /\ em'.status = "running" /\ ~em'.orig => C27_AttachedAsConfigured(em')
     /\ C27_Returned]_vars

\* An upstream map was passed, the config would inline and ignore the file
\* entered, and the token emitted is at a position name_for_bytepos knows a
\* name for.
C27_Witness ==
  /\ em.status = "running" /\ em.orig
  /\ em.last.kind = "token"
  /\ em.cur_file \in em.inline \cap em.ignore
  /\ name_for_bytepos(em, em.last.pos) # 0
  /\ Len(em.sources) = 2

(***************************************************************************)
(* Claims on lookups during registrations (SpecConc)                       *)
(***************************************************************************)
\* The step with which a pending lookup returns.
LookupReturns ==
  /\ res.op = "try_lookup_source_file"
  /\ res.out.tag = "pending"
  /\ res'.op = "try_lookup_source_file"
  /\ res'.out.tag # "pending"

\* pos is a position of the file i.
InRangeOf(i, pos) == files[i].start_pos <= pos /\ pos <= files[i].end_pos

\* A lookup of a position of a published file returns that file.
C23_PublishedFound ==
  \A i \in 1..Len(files) :
    InRangeOf(i, res.lo) => res'.out.tag = "Ok" /\ res'.out.sf = i

\* C23 as stated: a lookup never observes a half-registered file: one made
\* in a state where its position is in a range reserved from the counter
\* with the file not yet published fails with NoFileFor, and once
\* new_source_file has returned every lookup of a position of the range
\* returns the new file.
C23_ReservedFailsNoFileFor ==
  [][LookupReturns => /\ res.out.reserved => res'.out.tag = "NoFileFor"
                      /\ C23_PublishedFound]_vars

\* C23, amended: a lookup never observes a half-registered file: it returns
\* only in states where no registration is between taking the lock and
\* returning, so no range is reserved without its file; a lookup made while
\* its position is in such a range waits and returns the new file, and
\* once new_source_file has returned every lookup of a position of the
\* range returns the new file.
C23_NeverHalfRegistered ==
  [][LookupReturns => /\ \A t \in Threads : pc[t] \notin {"reserve", "push", "ret"}
                      /\ \A pos \in ConcPos : ~Reserved(pos)
                      /\ res.out.reserved
                           => /\ res'.out.tag = "Ok"
                              /\ InRangeOf(res'.out.sf, res.lo)
                      /\ C23_PublishedFound]_vars

\* A lookup made while its position was reserved and unpublished has
\* returned the file that was being registered.
C23_Witness ==
  /\ res.op = "try_lookup_source_file"
  /\ res.out.tag = "Ok"
  /\ res.out.reserved
  /\ InRangeOf(res.out.sf, res.lo)
  /\ Len(files) = 2

(***************************************************************************)
(* Claims on load_file (SpecConc)                                          *)
(***************************************************************************)
\* The step with which load_file of thread t has read its file and enters
\* new_source_file_impl.
LoadEnters(t) ==
  /\ pc[t] = "idle"
  /\ pc'[t] = "acquire"
  /\ local'[t].unmapped_path.kind = "Real"

\* The step with which load_file returns an error.
LoadFails == res = NoRes /\ res'.op = "load_file"

\* The counter, the files and the index are as they were.
C25_NothingRegistered ==
  /\ start_pos' = start_pos
  /\ files' = files
  /\ stable_id_to_source_file' = stable_id_to_source_file

\* C25: load_file finishes the loader's read_file before it acquires the
\* files lock or reserves positions; when the read fails (I/O error, or
\* invalid UTF-8 reported as InvalidData) load_file returns that error and
\* the counter, the files vector and the stable-id index are unchanged.
C25_ReadBeforeRegistration ==
  [][/\ \A t \in Threads :
          LoadEnters(t)
            => /\ local'[t].unmapped_path.path = PathA
               /\ local'[t].raw = ChBOM \o ChEuro
               /\ lock # t /\ lock' = lock
               /\ C25_NothingRegistered
     /\ LoadFails
          => /\ res'.out.path \in {PathAB, PathAC, PathB}
             /\ res'.out.tag = IF res'.out.path = PathB THEN "NotFound" ELSE "InvalidData"
             /\ pc' = pc /\ local' = local /\ lock' = lock
             /\ C25_NothingRegistered
     /\ \A t \in Threads :
          pc'[t] # "idle" /\ local'[t].unmapped_path.kind = "Real"
            => local'[t].unmapped_path.path = PathA]_vars

\* load_file has returned InvalidData while another thread is between
\* reserving its range and publishing its file.
C25_Witness ==
  /\ res.op = "load_file"
  /\ res.out.tag = "InvalidData"
  /\ \E t \in Threads : pc[t] = "push"
  /\ Len(files) = 1

====
